---- MODULE Spec2Model ----
(***************************************************************************)
(* Mile High Potential: the multi-policy configuration panel (ConfigPanel),*)
(* the map presenter (MapUpdater) and the three buffer renderers           *)
(* (TransitRenderer, ParkRenderer, BusRenderer) as one state machine.      *)
(* Every action is one handler of the single-threaded UI event loop, run   *)
(* to completion; an await splits a handler into the part before the       *)
(* suspension and its continuation.                                        *)
(***************************************************************************)
EXTENDS Integers, Sequences, FiniteSets, TLC

\* ------------------------------------------------------------------ bounds
\* Evaluations that may be unresolved at once (guard of the apply() handlers).
MaxInFlight == 2
\* Sliders that may differ from the ballot defaults at once (guard of SliderInput).
MaxSliderEdits == 1

\* --------------------------------------------------------------- constants
Policies == {"tod", "pod", "bod"}
SubPolicies == {"brt", "bus"}
RendererNames == {"transit", "park", "bus"}

TodKeys == {"ring1Distance", "ring1Height", "ring2Distance", "ring2Height",
            "ring3Distance", "ring3Height"}
PodKeys == {"regionalInnerDistance", "regionalInnerHeight", "regionalOuterDistance",
            "regionalOuterHeight", "communityDistance", "communityHeight"}
BodKeys == {"brtInnerDistance", "brtInnerHeight", "brtOuterDistance",
            "brtOuterHeight", "busDistance", "busHeight"}

\* The ballot-measure defaults written by reset().
TodDefaults == [ring1Distance |-> 500, ring1Height |-> 8, ring2Distance |-> 1000,
                ring2Height |-> 5, ring3Distance |-> 1500, ring3Height |-> 3]
PodDefaults == [regionalInnerDistance |-> 250, regionalInnerHeight |-> 5,
                regionalOuterDistance |-> 750, regionalOuterHeight |-> 3,
                communityDistance |-> 250, communityHeight |-> 3]
BodDefaults == [brtInnerDistance |-> 250, brtInnerHeight |-> 5, brtOuterDistance |-> 750,
                brtOuterHeight |-> 3, busDistance |-> 250, busHeight |-> 3]

\* Default buffer distances of the renderers' loadBufferRings.
TransitDefaultFeet == 1500
BusDefaultFeet == 250

\* Values a user drags a slider to (besides the defaults).
DistanceInputs == {2000}
HeightInputs == {12}

IsDistanceKey(k) ==
    k \in {"ring1Distance", "ring2Distance", "ring3Distance", "regionalInnerDistance",
           "regionalOuterDistance", "communityDistance", "brtInnerDistance",
           "brtOuterDistance", "busDistance"}

SliderInputs(k) == IF IsDistanceKey(k) THEN DistanceInputs ELSE HeightInputs

VARIABLES
    \* ---- ConfigPanel (DOM state read and written by the panel)
    policyToggles,     \* [Policies -> BOOLEAN]: .checked of tod/pod/bod-enabled
    bodToggles,        \* [SubPolicies -> BOOLEAN]: .checked of brt/bus-enabled
    todSliders,        \* [TodKeys -> Int]: .value of the TOD sliders
    podSliders,        \* [PodKeys -> Int]
    bodSliders,        \* [BodKeys -> Int]
    excludeUnlikely,   \* .checked of #exclude-unlikely
    sectionDisabled,   \* [Policies -> BOOLEAN]: 'disabled' class of a policy section
    controlsDisabled,  \* [SubPolicies -> BOOLEAN]: 'disabled' attribute of [id^="brt-"/"bus-"]
    loading,           \* applyBtn.disabled and #loading-overlay.active (set together)
    resultDisplays,    \* the panel counters
    \* ---- evaluations in flight at the compute boundary
    pending,           \* Seq of [config, fails, overtaken], in issue order:
                       \*   fails: the answer the service will give is a failure;
                       \*   overtaken: a request issued later was answered and applied
    \* ---- MapUpdater
    parcelLayer,       \* this.parcelLayer
    parcelLayersOnMap, \* parcel layers registered with the Leaflet map
    titleStats,        \* the title-card counters
    updating,          \* << >> or <<geojson>>: updateWithResults between remove and add
    \* ---- renderers and their layers
    installed,         \* window.transitRenderer / parkRenderer / busRenderer present
    fetches,           \* feature fetches not yet answered
    transitRenderer,
    parkRenderer,
    busRenderer,
    mapLayers,         \* renderer layers registered with the Leaflet map
    \* ---- history
    togglesApplied,    \* TRUE iff apply() has run to its request since the toggles last changed
    \* ---- the single-policy page and the database function
    api,               \* [ApiMethods -> [state, answer]]: the MileHighAPI calls
    notices,           \* the calls whose failure the user was shown (error box, alert)
    drawing,           \* "ok" or "throws": whether drawing a buffer overlay throws
    calc,              \* a call of calculate_potential_units: its inputs and results
    \* ---- promises, notifications, map events
    loadAllResult,     \* [linesCount, stopsCount]: what BusRenderer.loadAll's two loaders returned
    errorBoxes,        \* number of showError boxes in the document, each with its 8 s timer
    alertOpen,         \* whether an alert() dialog is open: a modal, the page's script waits in it
    redrawn,           \* the canvas layers redrawn by the last map event, one entry per redraw
    clip,              \* a stop in a canvas redraw: its circle, the viewport, whether drawn
    todController,     \* [config, currentResults] of the TODController
    currentPreset,     \* currentPreset of the single-policy panel: "ballot" or "custom"
    popup              \* the parcel popup bound last: <<[parcel, content]>>, or << >>

panelVars == <<policyToggles, bodToggles, todSliders, podSliders, bodSliders,
               excludeUnlikely, sectionDisabled, controlsDisabled>>
evalVars == <<loading, resultDisplays, pending, togglesApplied>>
updaterVars == <<parcelLayer, parcelLayersOnMap, titleStats, updating>>
rendererVars == <<installed, fetches, transitRenderer, parkRenderer, busRenderer, mapLayers>>
sideVars == <<api, notices, drawing, calc>>
auxVars == <<loadAllResult, errorBoxes, alertOpen, redrawn, clip, todController,
             currentPreset, popup>>
vars == <<panelVars, evalVars, updaterVars, rendererVars, sideVars, auxVars>>

\* ===================================================================
\* ConfigPanel: the panel's DOM state as one record, so that a handler
\* which calls reset() and then apply() reads what reset() wrote.
\* ===================================================================
Panel ==
    [policyToggles |-> policyToggles, bodToggles |-> bodToggles,
     todSliders |-> todSliders, podSliders |-> podSliders, bodSliders |-> bodSliders,
     excludeUnlikely |-> excludeUnlikely, sectionDisabled |-> sectionDisabled,
     controlsDisabled |-> controlsDisabled]

SetPanel(p) ==
    /\ policyToggles' = p.policyToggles
    /\ bodToggles' = p.bodToggles
    /\ todSliders' = p.todSliders
    /\ podSliders' = p.podSliders
    /\ bodSliders' = p.bodSliders
    /\ excludeUnlikely' = p.excludeUnlikely
    /\ sectionDisabled' = p.sectionDisabled
    /\ controlsDisabled' = p.controlsDisabled

\* updatePolicyState(policy, enabled): the section's 'disabled' class; the
\* policy bubbles it re-renders are a function of policyToggles.
updatePolicyState(p, policy, enabled) ==
    [p EXCEPT !.sectionDisabled[policy] = ~enabled]

\* updateBODSubPolicy(subPolicy, enabled): every element whose id starts with
\* "brt-" or "bus-" gets or loses the 'disabled' attribute; the sub-policy's
\* own checkbox (brt-enabled, bus-enabled) is one of them.
updateBODSubPolicy(p, subPolicy, enabled) ==
    [p EXCEPT !.controlsDisabled[subPolicy] = ~enabled]

\* A ring whose height is read from the distance slider.
Ring_heightFromDistance(distance, height, zonePrefix, zoneSuffix, density) ==
    [distance |-> distance, height |-> distance,
     zone |-> <<zonePrefix, height, zoneSuffix>>, density |-> density]

\* One ring of a request: parseInt of the slider values, the zone string
\* built from the height slider.
Ring(distance, height, zonePrefix, zoneSuffix, density) ==
    [distance |-> distance, height |-> height,
     zone |-> <<zonePrefix, height, zoneSuffix>>, density |-> density]

getConfig(p) ==
    [exclude_unlikely |-> p.excludeUnlikely,
     tod |-> IF p.policyToggles["tod"]
             THEN [enabled |-> TRUE,
                   rings |-> <<Ring(p.todSliders.ring1Distance, p.todSliders.ring1Height,
                                    "MX-", "", "high"),
                               Ring(p.todSliders.ring2Distance, p.todSliders.ring2Height,
                                    "RX-", "x", "med"),
                               Ring(p.todSliders.ring3Distance, p.todSliders.ring3Height,
                                    "MU-", "x", "low")>>]
             ELSE [enabled |-> FALSE],
     pod |-> IF p.policyToggles["pod"]
             THEN [enabled |-> TRUE,
                   regional_parks |->
                       <<Ring(p.podSliders.regionalInnerDistance,
                              p.podSliders.regionalInnerHeight, "RX-", "x", "med"),
                         Ring(p.podSliders.regionalOuterDistance,
                              p.podSliders.regionalOuterHeight, "MU-", "x", "low")>>,
                   community_parks |->
                       <<Ring(p.podSliders.communityDistance,
                              p.podSliders.communityHeight, "MU-", "x", "low")>>]
             ELSE [enabled |-> FALSE],
     bod |-> IF p.policyToggles["bod"]
             THEN [enabled |-> TRUE,
                   brt_enabled |-> p.bodToggles["brt"],
                   brt_rings |->
                       IF p.bodToggles["brt"]
                       THEN <<Ring(p.bodSliders.brtInnerDistance,
                                   p.bodSliders.brtInnerHeight, "RX-", "", "med"),
                              Ring(p.bodSliders.brtOuterDistance,
                                   p.bodSliders.brtOuterHeight, "MX-", "", "low")>>
                       ELSE << >>,
                   bus_enabled |-> p.bodToggles["bus"],
                   bus_rings |->
                       IF p.bodToggles["bus"]
                       THEN <<Ring(p.bodSliders.busDistance, p.bodSliders.busHeight,
                                   "MX-", "", "low")>>
                       ELSE << >>]
             ELSE [enabled |-> FALSE]]

\* getConfig of the panel in js/config-panel-multi.js, which has the policy
\* checkboxes and the TOD and POD sliders but no BOD controls: an entry is
\* added for a checked policy only, and the BOD entry is a placeholder.
NoEntry == [x \in {} |-> << >>]

Multi_getConfig(p) ==
    [exclude_unlikely |-> p.excludeUnlikely]
    @@ (IF p.policyToggles["tod"]
        THEN [tod |-> [enabled |-> TRUE,
                       rings |-> <<Ring(p.todSliders.ring1Distance, p.todSliders.ring1Height,
                                        "MX-", "", "high"),
                                   Ring(p.todSliders.ring2Distance, p.todSliders.ring2Height,
                                        "RX-", "x", "med"),
                                   Ring(p.todSliders.ring3Distance, p.todSliders.ring3Height,
                                        "MU-", "x", "low")>>]]
        ELSE NoEntry)
    @@ (IF p.policyToggles["pod"]
        THEN [pod |-> [enabled |-> TRUE,
                       regional_parks |->
                           <<Ring(p.podSliders.regionalInnerDistance,
                                  p.podSliders.regionalInnerHeight, "RX-", "x", "med"),
                             Ring(p.podSliders.regionalOuterDistance,
                                  p.podSliders.regionalOuterHeight, "MU-", "x", "low")>>,
                       community_parks |->
                           <<Ring(p.podSliders.communityDistance,
                                  p.podSliders.communityHeight, "MU-", "x", "low")>>]]
        ELSE NoEntry)
    @@ (IF p.policyToggles["bod"]
        THEN [bod |-> [enabled |-> TRUE, brt_lines |-> << >>, medium_freq_bus |-> << >>]]
        ELSE NoEntry)

\* reset() as the earlier panel wrote it: BOD left off.
reset_bodOff(p) ==
    LET q == [p EXCEPT !.policyToggles = [x \in Policies |-> x # "bod"],
                       !.todSliders = TodDefaults,
                       !.podSliders = PodDefaults,
                       !.bodToggles = [brt |-> FALSE, bus |-> TRUE],
                       !.bodSliders = BodDefaults,
                       !.excludeUnlikely = TRUE]
    IN updatePolicyState(updatePolicyState(updatePolicyState(q, "tod", TRUE),
                                           "pod", TRUE), "bod", FALSE)

\* reset(): all three policies on, the ballot-measure slider values, BRT off,
\* bus on, exclude-unlikely on, then updatePolicyState for each policy.  The
\* sub-policy checkboxes are set from script, which fires no change event, so
\* updateBODSubPolicy does not run.
reset(p) ==
    LET q == [p EXCEPT !.policyToggles = [x \in Policies |-> TRUE],
                       !.todSliders = TodDefaults,
                       !.podSliders = PodDefaults,
                       !.bodToggles = [brt |-> FALSE, bus |-> TRUE],
                       !.bodSliders = BodDefaults,
                       !.excludeUnlikely = TRUE]
    IN updatePolicyState(updatePolicyState(updatePolicyState(q, "tod", TRUE),
                                           "pod", TRUE), "bod", TRUE)

\* ===================================================================
\* The compute boundary: window.api.evaluatePolicies(config).  Its
\* implementation is not among the sources; the response is built as
\* sections 4.1 and 6 of the specification describe it.
\* ===================================================================
ParcelIds == {1, 2, 3}

\* Distance in feet from each parcel to the nearest feature of each class.
ParcelDistance ==
    [i \in ParcelIds |->
        CASE i = 1 -> [tod |-> 420, regional |-> 3000, community |-> 3000,
                       brt |-> 3000, bus |-> 200]
          [] i = 2 -> [tod |-> 1501, regional |-> 700, community |-> 3000,
                       brt |-> 3000, bus |-> 3000]
          [] OTHER -> [tod |-> 3000, regional |-> 3000, community |-> 3000,
                       brt |-> 300, bus |-> 240]]

\* land_area_acres is NUMERIC: an exact decimal, held here in hundredths of
\* an acre.
ParcelAcres == [i \in ParcelIds |-> CASE i = 1 -> 25 [] i = 2 -> 110 [] OTHER -> 305]

\* ROUND of a NUMERIC given in hundredths: to the nearest integer, a half away
\* from zero.
ROUND(hundredths) ==
    IF hundredths >= 0 THEN (hundredths + 50) \div 100
    ELSE 0 - ((50 - hundredths) \div 100)

\* zoning_lookup as seeded: zone_code -> max_stories.  The seed rows give
\* max_stories as a decimal literal (here in tenths); the column is INTEGER,
\* so the value stored is the literal rounded to the nearest integer, a half
\* away from zero.
zoning_lookup ==
    LET seeded == {
            <<"D-C", 200>>, <<"D-AS", 160>>, <<"D-GT", 120>>, <<"C-MX-3", 30>>,
            <<"C-MX-5", 50>>, <<"C-MX-8", 80>>, <<"C-MX-12", 120>>, <<"C-MX-16", 160>>,
            <<"C-MX-20", 200>>, <<"G-MU-2.5", 25>>, <<"G-MU-3", 30>>, <<"G-MU-5", 50>>,
            <<"G-MU-8", 80>>, <<"G-RX-3", 30>>, <<"G-RX-5", 50>>, <<"G-RX-8", 80>>,
            <<"G-MS-2.5", 25>>, <<"G-MS-3", 30>>, <<"G-MS-5", 50>>, <<"U-SU-A", 20>>,
            <<"U-SU-B", 20>>, <<"U-SU-C", 20>>, <<"U-TU-A", 20>>, <<"U-TU-B", 20>>,
            <<"U-TU-C", 20>>, <<"S-SU", 20>>, <<"S-TU", 20>>, <<"U-RH-2.5", 25>>,
            <<"U-RH-3", 30>>, <<"I-MX-3", 30>>, <<"I-MX-5", 50>>, <<"I-MX-8", 80>>,
            <<"I-MX-12", 120>>, <<"I-A", 30>>, <<"I-B", 30>>, <<"OS-A", 0>>,
            <<"OS-B", 0>> }
        stored(tenths) == (tenths + 5) \div 10
    IN [zone_code \in {row[1] : row \in seeded} |->
           stored((CHOOSE row \in seeded : row[1] = zone_code)[2])]

\* A lookup table in which the 8..10 band was entered below the 6..7 band.
units_per_acre_dip(stories) ==
    IF stories <= 2 THEN 30
    ELSE IF 2 * stories <= 5 THEN 35
    ELSE IF stories <= 3 THEN 60
    ELSE IF stories <= 5 THEN 100
    ELSE IF stories <= 7 THEN 160
    ELSE IF stories <= 10 THEN 120
    ELSE IF stories <= 12 THEN 220
    ELSE IF stories <= 16 THEN 280
    ELSE IF stories <= 20 THEN 350
    ELSE 450

\* calculate_potential_units of the schema: the units-per-acre lookup on an
\* INTEGER story count (2.5 is compared as 5 halves), times the land area,
\* rounded.
units_per_acre(stories) ==
    IF stories <= 2 THEN 30
    ELSE IF 2 * stories <= 5 THEN 35
    ELSE IF stories <= 3 THEN 60
    ELSE IF stories <= 5 THEN 100
    ELSE IF stories <= 7 THEN 160
    ELSE IF stories <= 10 THEN 160
    ELSE IF stories <= 12 THEN 220
    ELSE IF stories <= 16 THEN 280
    ELSE IF stories <= 20 THEN 350
    ELSE 450

calculate_potential_units(land_area_acres, stories) ==
    ROUND(land_area_acres * units_per_acre(stories))

\* Ring assignment: the smallest-threshold ring whose threshold is >= the
\* distance (ties: the first listed); << >> when the parcel is farther than all.
AssignRing(rings, d) ==
    LET ok == {i \in DOMAIN rings : rings[i].distance >= d}
    IN IF ok = {} THEN << >>
       ELSE LET best == CHOOSE i \in ok :
                    \A j \in ok : \/ rings[i].distance < rings[j].distance
                                  \/ (rings[i].distance = rings[j].distance /\ i <= j)
            IN <<rings[best]>>

\* The rings a parcel satisfies under one policy, one per feature class.
PolicyRings(config, policy, i) ==
    LET d == ParcelDistance[i]
    IN CASE policy = "tod" ->
                IF config.tod.enabled THEN AssignRing(config.tod.rings, d.tod) ELSE << >>
         [] policy = "pod" ->
                IF config.pod.enabled
                THEN AssignRing(config.pod.regional_parks, d.regional)
                     \o AssignRing(config.pod.community_parks, d.community)
                ELSE << >>
         [] OTHER ->
                IF config.bod.enabled
                THEN AssignRing(config.bod.brt_rings, d.brt)
                     \o AssignRing(config.bod.bus_rings, d.bus)
                ELSE << >>

\* Within a policy the innermost of the satisfied rings.
PolicyRing(config, policy, i) ==
    LET rs == PolicyRings(config, policy, i)
    IN IF rs = << >> THEN << >>
       ELSE IF Len(rs) = 1 \/ rs[1].distance <= rs[2].distance THEN <<rs[1]>>
       ELSE <<rs[2]>>

\* First-enabled-policy-wins precedence: TOD, then POD, then BOD.
PolicySource(config, i) ==
    IF PolicyRing(config, "tod", i) # << >> THEN "tod"
    ELSE IF PolicyRing(config, "pod", i) # << >> THEN "pod"
    ELSE IF PolicyRing(config, "bod", i) # << >> THEN "bod"
    ELSE "none"

PolicyLabel(policy) ==
    CASE policy = "tod" -> "TOD" [] policy = "pod" -> "POD" [] OTHER -> "BOD"

ParcelFeature(config, i) ==
    LET src == PolicySource(config, i)
        ring == PolicyRing(config, src, i)[1]
    IN [parcel_id |-> i, policy_source |-> PolicyLabel(src),
        assigned_height |-> ring.height, ring_density |-> ring.density,
        potential_units |-> calculate_potential_units(ParcelAcres[i], ring.height)]

RECURSIVE SumUnits(_)
SumUnits(fs) ==
    IF fs = {} THEN 0
    ELSE LET f == CHOOSE x \in fs : TRUE
         IN f.potential_units + SumUnits(fs \ {f})

evaluatePolicies(config) ==
    LET features == {ParcelFeature(config, i) :
                        i \in {j \in ParcelIds : PolicySource(config, j) # "none"}}
        enabled == {policy \in Policies : config[policy].enabled}
    IN [geojson |-> [type |-> "FeatureCollection", features |-> features],
        summary |-> [total_parcels |-> Cardinality(features),
                     total_units |-> SumUnits(features),
                     by_policy |-> [l \in {PolicyLabel(policy) : policy \in enabled} |->
                                      LET fs == {f \in features : f.policy_source = l}
                                      IN [parcels |-> Cardinality(fs),
                                          units |-> SumUnits(fs)]]]]

\* ===================================================================
\* ConfigPanel.updatePanelStats and the loading state
\* ===================================================================
\* A counter's text: the number's locale string, or '--'.
Dashes == << >>
formatNumber(num) == <<num>>

NoStats ==
    [totalParcels |-> Dashes, totalUnits |-> Dashes, todParcels |-> Dashes,
     todUnits |-> Dashes, podParcels |-> Dashes, podUnits |-> Dashes,
     bodParcels |-> Dashes, bodUnits |-> Dashes]

\* The POD counters filled from the TOD entry of the summary.
updatePanelStats_podFromTod(results) ==
    LET bp == results.summary.by_policy
        parcels(l) == IF l \in DOMAIN bp THEN formatNumber(bp[l].parcels) ELSE Dashes
        units(l) == IF l \in DOMAIN bp THEN formatNumber(bp[l].units) ELSE Dashes
    IN [totalParcels |-> formatNumber(results.summary.total_parcels),
        totalUnits |-> formatNumber(results.summary.total_units),
        todParcels |-> parcels("TOD"), todUnits |-> units("TOD"),
        podParcels |-> parcels("TOD"), podUnits |-> units("TOD"),
        bodParcels |-> parcels("BOD"), bodUnits |-> units("BOD")]

updatePanelStats(results) ==
    LET bp == results.summary.by_policy
        parcels(l) == IF l \in DOMAIN bp THEN formatNumber(bp[l].parcels) ELSE Dashes
        units(l) == IF l \in DOMAIN bp THEN formatNumber(bp[l].units) ELSE Dashes
    IN [totalParcels |-> formatNumber(results.summary.total_parcels),
        totalUnits |-> formatNumber(results.summary.total_units),
        todParcels |-> parcels("TOD"), todUnits |-> units("TOD"),
        podParcels |-> parcels("POD"), podUnits |-> units("POD"),
        bodParcels |-> parcels("BOD"), bodUnits |-> units("BOD")]

\* ===================================================================
\* MapUpdater
\* ===================================================================
NoParcelLayer == [id |-> 0, features |-> {}]

\* A new Leaflet layer object: distinct from every layer still referenced or
\* registered.
NewParcelLayerId(ref, onMap) ==
    CHOOSE n \in 1..(Cardinality(onMap) + 2) :
        /\ n # ref.id
        /\ \A l \in onMap : l.id # n
        /\ \A m \in 1..(n - 1) : m = ref.id \/ \E l \in onMap : l.id = m

\* updateTitleStats that fills the title card once and leaves it after that.
updateTitleStats_once(results) ==
    IF titleStats.units # Dashes THEN titleStats
    ELSE [units |-> formatNumber(results.summary.total_units),
          parcels |-> formatNumber(results.summary.total_parcels)]

updateTitleStats(results) ==
    [units |-> formatNumber(results.summary.total_units),
     parcels |-> formatNumber(results.summary.total_parcels)]

\* updateWithResults without its removal of the old layer.
updateWithResults_keep(ref, onMap) == onMap

\* updateWithResults, first half: "Clear existing parcel layer".
updateWithResults_remove(ref, onMap) ==
    IF ref # NoParcelLayer THEN onMap \ {ref} ELSE onMap

\* updateWithResults, second half: L.geoJSON(results, ...).addTo(this.map).
updateWithResults_add(ref, onMap, geojson) ==
    IF geojson.type = "FeatureCollection"
    THEN LET layer == [id |-> NewParcelLayerId(ref, onMap), features |-> geojson.features]
         IN [parcelLayer |-> layer, onMap |-> onMap \cup {layer}]
    ELSE [parcelLayer |-> ref, onMap |-> onMap]

\* ===================================================================
\* Renderer layers.  A Leaflet layer object is a record; its id is the
\* object's identity.  An operator of a renderer maps w = [r |-> the
\* renderer's fields, map |-> the layers registered with the map] to the
\* same after the call.
\* ===================================================================
NoLayer == [kind |-> "none", id |-> 0, feet |-> 0, feet2 |-> 0, features |-> 0]

\* The identity of a new layer object: none of the objects of that kind
\* still referenced (refs) or registered (map).
NewLayerId(kind, refs, map) ==
    LET used == {l.id : l \in {x \in refs \cup map : x.kind = kind}}
    IN CHOOSE n \in 1..(Cardinality(used) + 1) :
          n \notin used /\ \A m \in 1..(n - 1) : m \in used

removeLayer(map, layer) == map \ {layer}

LayersOf(map, kind) == {l \in map : l.kind = kind}

\* ------------------------------------------------------------ TransitRenderer
TransitInit ==
    [stations |-> 0, railLinesLayer |-> NoLayer, stationsLayer |-> NoLayer,
     bufferRingsLayer |-> NoLayer]

Transit_clearBuffers(w) ==
    IF w.r.bufferRingsLayer # NoLayer
    THEN [w EXCEPT !.map = removeLayer(@, w.r.bufferRingsLayer)]
    ELSE w

Transit_hideLines(w) ==
    IF w.r.railLinesLayer # NoLayer
    THEN [w EXCEPT !.map = removeLayer(@, w.r.railLinesLayer)]
    ELSE w

Transit_hideStations(w) ==
    IF w.r.stationsLayer # NoLayer
    THEN [w EXCEPT !.map = removeLayer(@, w.r.stationsLayer)]
    ELSE w

Transit_showLines(w) ==
    IF w.r.railLinesLayer # NoLayer /\ w.r.railLinesLayer \notin w.map
    THEN [w EXCEPT !.map = @ \cup {w.r.railLinesLayer}]
    ELSE w

\* showStations that never puts the layer back.
Transit_showStations_never(w) == w

Transit_showStations(w) ==
    IF w.r.stationsLayer # NoLayer /\ w.r.stationsLayer \notin w.map
    THEN [w EXCEPT !.map = @ \cup {w.r.stationsLayer}]
    ELSE w

\* loadBufferRings(stations, distanceFeet): clearBuffers, then one merged
\* buffer layer around the stations, added to the map; a throw while the
\* buffers are computed is caught and logged, after clearBuffers.
\* loadBufferRings without its clearBuffers().
Transit_loadBufferRings_noClear(w, stations, distanceFeet) ==
    LET layer == [kind |-> "todBuffer",
                  id |-> NewLayerId("todBuffer", {w.r.bufferRingsLayer}, w.map),
                  feet |-> distanceFeet, feet2 |-> 0, features |-> stations]
    IN IF drawing = "throws" THEN w
       ELSE [r |-> [w.r EXCEPT !.bufferRingsLayer = layer], map |-> w.map \cup {layer}]

Transit_loadBufferRings(w, stations, distanceFeet) ==
    LET c == Transit_clearBuffers(w)
        layer == [kind |-> "todBuffer",
                  id |-> NewLayerId("todBuffer", {c.r.bufferRingsLayer}, c.map),
                  feet |-> distanceFeet, feet2 |-> 0, features |-> stations]
    IN IF drawing = "throws" THEN c
       ELSE [r |-> [c.r EXCEPT !.bufferRingsLayer = layer], map |-> c.map \cup {layer}]

\* updateBufferRings that loads the stations again.
Transit_updateBufferRings_reload(w, distanceFeet) ==
    LET h == Transit_hideStations(w)
        layer == [kind |-> "stations",
                  id |-> NewLayerId("stations", {h.r.stationsLayer}, h.map),
                  feet |-> 0, feet2 |-> 0, features |-> w.r.stations]
    IN IF w.r.stations > 0
       THEN Transit_loadBufferRings(
                [r |-> [h.r EXCEPT !.stationsLayer = layer], map |-> h.map \cup {layer}],
                w.r.stations, distanceFeet)
       ELSE w

Transit_updateBufferRings(w, distanceFeet) ==
    IF w.r.stations > 0
    THEN Transit_loadBufferRings(w, w.r.stations, distanceFeet)
    ELSE w

\* loadStations after getStations() resolved with `stations` stations.
Transit_loadStations(w, stations) ==
    LET h == Transit_hideStations([w EXCEPT !.r.stations = stations])
        layer == [kind |-> "stations",
                  id |-> NewLayerId("stations", {h.r.stationsLayer}, h.map),
                  feet |-> 0, feet2 |-> 0, features |-> stations]
    IN Transit_loadBufferRings(
           [r |-> [h.r EXCEPT !.stationsLayer = layer], map |-> h.map \cup {layer}],
           stations, TransitDefaultFeet)

\* loadRailLines after getRailLines() resolved with `lines` segments.
Transit_loadRailLines(w, lines) ==
    LET h == Transit_hideLines(w)
        layer == [kind |-> "railLines",
                  id |-> NewLayerId("railLines", {h.r.railLinesLayer}, h.map),
                  feet |-> 0, feet2 |-> 0, features |-> lines]
    IN [r |-> [h.r EXCEPT !.railLinesLayer = layer], map |-> h.map \cup {layer}]

\* The TOD block of apply().
Transit_apply(w, p) ==
    IF p.policyToggles["tod"]
    THEN Transit_updateBufferRings(Transit_showStations(Transit_showLines(w)),
                                   p.todSliders.ring3Distance)
    ELSE Transit_clearBuffers(Transit_hideStations(Transit_hideLines(w)))

\* --------------------------------------------------------------- ParkRenderer
ParkInit == [parksFeatures |-> << >>, parksLayer |-> NoLayer, bufferRingsLayer |-> NoLayer]

\* The methods class ParkRenderer defines; calling any other member of an
\* instance is a TypeError.
ParkRendererMethods == {"loadParks", "updateBuffers"}

\* The members of window.parkRenderer the POD block of apply() calls first.
Park_applyCalls(p) ==
    IF p.policyToggles["pod"] THEN <<"showParks", "updateBuffers">>
    ELSE <<"hideParks", "clearBuffers">>

\* The POD block of apply() throws at its first call of a missing method.
Park_applyThrows(p) ==
    \E i \in DOMAIN Park_applyCalls(p) : Park_applyCalls(p)[i] \notin ParkRendererMethods

\* loadParks after getParks() resolved with the given park types.
Park_loadParks(w, parks) ==
    LET m == IF w.r.parksLayer # NoLayer THEN removeLayer(w.map, w.r.parksLayer) ELSE w.map
        layer == [kind |-> "parks", id |-> NewLayerId("parks", {w.r.parksLayer}, m),
                  feet |-> 0, feet2 |-> 0, features |-> Len(parks)]
    IN [r |-> [w.r EXCEPT !.parksFeatures = parks, !.parksLayer = layer],
        map |-> m \cup {layer}]

\* updateBuffers(regionalDist, communityDist): the old overlay is removed
\* (the reference is kept); without parks, or with no positive distance,
\* nothing is drawn; else one combined layer of a buffer per park, regional
\* parks at regionalDist and every other park at communityDist.  A throw of
\* the buffer computation is caught: the overlay is then omitted.
Park_updateBuffers(w, regionalDist, communityDist) ==
    LET m == IF w.r.bufferRingsLayer # NoLayer
             THEN removeLayer(w.map, w.r.bufferRingsLayer) ELSE w.map
        parks == w.r.parksFeatures
        bufferList == {i \in DOMAIN parks :
                          IF parks[i] = "regional" THEN regionalDist > 0
                          ELSE communityDist > 0}
        layer == [kind |-> "podBuffer",
                  id |-> NewLayerId("podBuffer", {w.r.bufferRingsLayer}, m),
                  feet |-> regionalDist, feet2 |-> communityDist,
                  features |-> Cardinality(bufferList)]
    IN IF parks = << >> \/ bufferList = {} \/ drawing = "throws"
       THEN [r |-> w.r, map |-> m]
       ELSE [r |-> [w.r EXCEPT !.bufferRingsLayer = layer], map |-> m \cup {layer}]

\* ---------------------------------------------------------------- BusRenderer
\* redrawHandlers: the canvas layers whose _redraw is registered with the map
\* for 'moveend zoomend resize', one entry per registration (map.on in
\* onAdd, map.off in onRemove), kept with the renderer that owns the layers.
BusInit ==
    [stops |-> 0, brtLinesLayer |-> NoLayer, stopsLayer |-> NoLayer,
     bufferCanvasLayer |-> NoLayer, currentBufferFeet |-> BusDefaultFeet,
     redrawHandlers |-> << >>]

\* clearBuffers that takes the canvas off without unbinding its _redraw.
Bus_clearBuffers_keepHandler(w) ==
    IF w.r.bufferCanvasLayer # NoLayer
    THEN [r |-> [w.r EXCEPT !.bufferCanvasLayer = NoLayer],
          map |-> removeLayer(w.map, w.r.bufferCanvasLayer)]
    ELSE w

\* clearBuffers: map.removeLayer runs the layer's onRemove, which unbinds its
\* _redraw from the map's events.
Bus_clearBuffers(w) ==
    IF w.r.bufferCanvasLayer # NoLayer
    THEN [r |-> [w.r EXCEPT !.bufferCanvasLayer = NoLayer,
                            !.redrawHandlers =
                                SelectSeq(@, LAMBDA h : h # w.r.bufferCanvasLayer.id)],
          map |-> removeLayer(w.map, w.r.bufferCanvasLayer)]
    ELSE w

Bus_hideStops(w) ==
    IF w.r.stopsLayer # NoLayer
    THEN [w EXCEPT !.map = removeLayer(@, w.r.stopsLayer)]
    ELSE w

Bus_showStops(w) ==
    IF w.r.stopsLayer # NoLayer /\ w.r.stopsLayer \notin w.map
    THEN [w EXCEPT !.map = @ \cup {w.r.stopsLayer}]
    ELSE w

\* loadBufferRings(stops, distanceFeet): clearBuffers; nothing more without
\* stops; else a new canvas layer added to the map.  The layer is assigned
\* to this.bufferCanvasLayer and registered by addTo before onAdd draws it,
\* so a throw in _redraw leaves it assigned and registered.
Bus_loadBufferRings(w, stops, distanceFeet) ==
    LET c == Bus_clearBuffers(w)
        layer == [kind |-> "bodBuffer", id |-> NewLayerId("bodBuffer", {}, c.map),
                  feet |-> distanceFeet, feet2 |-> 0, features |-> stops]
    IN IF stops = 0 THEN c
       ELSE [r |-> [c.r EXCEPT !.currentBufferFeet = distanceFeet,
                               !.bufferCanvasLayer = layer,
                               !.redrawHandlers = Append(@, layer.id)],
             map |-> c.map \cup {layer}]

\* CanvasBufferLayer.setDistance: the registered layer object itself changes.
Bus_setDistance(w, distanceFeet) ==
    LET old == w.r.bufferCanvasLayer
        new == [old EXCEPT !.feet = distanceFeet]
    IN [r |-> [w.r EXCEPT !.bufferCanvasLayer = new],
        map |-> IF old \in w.map THEN (w.map \ {old}) \cup {new} ELSE w.map]

Bus_updateBufferRings(w, distanceFeet) ==
    LET u == [w EXCEPT !.r.currentBufferFeet = distanceFeet]
    IN IF u.r.bufferCanvasLayer # NoLayer THEN Bus_setDistance(u, distanceFeet)
       ELSE IF u.r.stops > 0 THEN Bus_loadBufferRings(u, u.r.stops, distanceFeet)
       ELSE u

\* loadBRTLines after data/brt_lines.geojson was fetched with `lines`
\* features: hideLines() takes the old layer off, the new one is added.
Bus_loadBRTLines(w, lines) ==
    LET map == IF w.r.brtLinesLayer # NoLayer THEN removeLayer(w.map, w.r.brtLinesLayer)
               ELSE w.map
        layer == [kind |-> "brtLines",
                  id |-> NewLayerId("brtLines", {w.r.brtLinesLayer}, map),
                  feet |-> 0, feet2 |-> 0, features |-> lines]
    IN [r |-> [w.r EXCEPT !.brtLinesLayer = layer], map |-> map \cup {layer}]

\* loadStops that gives up when the BRT lines are not on the map.
Bus_loadStops_afterLines(w, stops) ==
    LET h == Bus_hideStops([w EXCEPT !.r.stops = stops])
        layer == [kind |-> "stops", id |-> NewLayerId("stops", {h.r.stopsLayer}, h.map),
                  feet |-> 0, feet2 |-> 0, features |-> stops]
    IN IF w.r.brtLinesLayer = NoLayer THEN w
       ELSE Bus_loadBufferRings(
                [r |-> [h.r EXCEPT !.stopsLayer = layer], map |-> h.map \cup {layer}],
                stops, BusDefaultFeet)

\* loadStops after data/bus_stops.geojson was fetched with `stops` features.
Bus_loadStops(w, stops) ==
    LET h == Bus_hideStops([w EXCEPT !.r.stops = stops])
        layer == [kind |-> "stops", id |-> NewLayerId("stops", {h.r.stopsLayer}, h.map),
                  feet |-> 0, feet2 |-> 0, features |-> stops]
    IN Bus_loadBufferRings(
           [r |-> [h.r EXCEPT !.stopsLayer = layer], map |-> h.map \cup {layer}],
           stops, BusDefaultFeet)

\* updateBufferRings whose loadBufferRings builds the canvas layer for an
\* empty stop list too.
Bus_updateBufferRingsThrows_unguarded(w) ==
    drawing = "throws"

\* Whether updateBufferRings(distanceFeet) throws: neither it nor
\* loadBufferRings has a try, so a throw in _redraw (from setDistance or from
\* onAdd) reaches the caller.
Bus_updateBufferRingsThrows(w) ==
    drawing = "throws" /\ (w.r.bufferCanvasLayer # NoLayer \/ w.r.stops > 0)

Bus_applyThrows(w, p) ==
    p.policyToggles["bod"] /\ Bus_updateBufferRingsThrows(Bus_showStops(w))

\* The BOD block of apply().
Bus_apply(w, p) ==
    IF p.policyToggles["bod"]
    THEN Bus_updateBufferRings(Bus_showStops(w), p.bodSliders.busDistance)
    ELSE Bus_clearBuffers(Bus_hideStops(w))

\* ===================================================================
\* Initial state: the page after the ConfigPanel constructor (init() ends
\* with reset()), with the feature fetches of the installed renderers
\* started and not yet answered.
\* ===================================================================
\* The MileHighAPI methods that have a caller, and a call not made.
ApiMethods == {"healthCheck", "evaluateTOD", "getStations", "getRailLines"}
NoCall == [state |-> "idle", answer |-> "none"]
NoCalc == << >>

\* A loader of BusRenderer.loadAll that has not returned yet.
Unsettled == << >>

\* Nothing loaded, no error box shown, no map event yet, no stop examined,
\* the TODController as constructed: the ballot-measure configuration and
\* currentResults null (the empty tuple).
InitAux ==
    /\ loadAllResult = [linesCount |-> Unsettled, stopsCount |-> Unsettled]
    /\ errorBoxes = 0
    /\ alertOpen = FALSE
    /\ redrawn = << >>
    /\ clip = << >>
    /\ todController =
          [config |-> [rings |-> <<[distance |-> 500, height |-> 8,
                                    zone |-> <<"C-MX-", 8, "x">>, density |-> "high"],
                                   [distance |-> 1000, height |-> 5,
                                    zone |-> <<"G-RX-", 5, "x">>, density |-> "med"],
                                   [distance |-> 1500, height |-> 3,
                                    zone |-> <<"G-MU-", 3, "x">>, density |-> "low"]>>,
                       include_light_rail |-> TRUE, include_brt |-> FALSE,
                       include_frequent_bus |-> FALSE, exclude_unlikely |-> TRUE],
           currentResults |-> << >>]
    /\ currentPreset = "ballot"
    /\ popup = << >>

FetchesOf(renderers) ==
    (IF "transit" \in renderers THEN {"stations", "railLines"} ELSE {})
    \cup (IF "park" \in renderers THEN {"parks"} ELSE {})
    \cup (IF "bus" \in renderers THEN {"brtLines", "stops"} ELSE {})

BlankPanel ==
    [policyToggles |-> [x \in Policies |-> FALSE],
     bodToggles |-> [x \in SubPolicies |-> FALSE],
     todSliders |-> TodDefaults, podSliders |-> PodDefaults, bodSliders |-> BodDefaults,
     excludeUnlikely |-> FALSE,
     sectionDisabled |-> [x \in Policies |-> FALSE],
     controlsDisabled |-> [x \in SubPolicies |-> FALSE]]

InitPanel(p) ==
    /\ policyToggles = p.policyToggles
    /\ bodToggles = p.bodToggles
    /\ todSliders = p.todSliders
    /\ podSliders = p.podSliders
    /\ bodSliders = p.bodSliders
    /\ excludeUnlikely = p.excludeUnlikely
    /\ sectionDisabled = p.sectionDisabled
    /\ controlsDisabled = p.controlsDisabled

InitPage(p, renderers) ==
    /\ InitPanel(p)
    /\ loading = FALSE
    /\ resultDisplays = NoStats
    /\ pending = << >>
    /\ togglesApplied = FALSE
    /\ parcelLayer = NoParcelLayer
    /\ parcelLayersOnMap = {}
    /\ titleStats = [units |-> Dashes, parcels |-> Dashes]
    /\ updating = << >>
    /\ installed = renderers
    /\ fetches = FetchesOf(renderers)
    /\ transitRenderer = TransitInit
    /\ parkRenderer = ParkInit
    /\ busRenderer = BusInit
    /\ mapLayers = {}
    /\ api = [m \in ApiMethods |-> NoCall]
    /\ notices = {}
    /\ drawing = "ok"
    /\ calc = NoCalc
    /\ InitAux

InitWith(renderers) == InitPage(reset(BlankPanel), renderers)

\* ===================================================================
\* ConfigPanel handlers
\* ===================================================================
Without(seq, i) == SubSeq(seq, 1, i - 1) \o SubSeq(seq, i + 1, Len(seq))

\* apply() up to its await: showLoading, the TOD / POD / BOD renderer blocks,
\* then getConfig() and the request.  With a ParkRenderer installed the POD
\* block throws, outside the try: nothing after it runs.
apply(p) ==
    LET w0 == [r |-> transitRenderer, map |-> mapLayers]
        t == IF "transit" \in installed THEN Transit_apply(w0, p) ELSE w0
        throws == "park" \in installed /\ Park_applyThrows(p)
        w1 == [r |-> busRenderer, map |-> t.map]
        b == IF "bus" \in installed THEN Bus_apply(w1, p) ELSE w1
        busThrows == ~throws /\ "bus" \in installed /\ Bus_applyThrows(w1, p)
    IN /\ throws \/ busThrows \/ Len(pending) < MaxInFlight
       /\ loading' = TRUE
       /\ transitRenderer' = t.r
       /\ IF throws
          THEN /\ busRenderer' = busRenderer
               /\ mapLayers' = t.map
               /\ pending' = pending
               /\ togglesApplied' = FALSE
          ELSE IF busThrows
          THEN /\ busRenderer' = b.r
               /\ mapLayers' = b.map
               /\ pending' = pending
               /\ togglesApplied' = FALSE
          ELSE /\ busRenderer' = b.r
               /\ mapLayers' = b.map
               /\ \E fails \in BOOLEAN :
                     pending' = Append(pending, [config |-> getConfig(p), fails |-> fails,
                                                 overtaken |-> FALSE])
               /\ togglesApplied' = TRUE
       /\ UNCHANGED <<resultDisplays, updaterVars, installed, fetches, parkRenderer>>
       /\ UNCHANGED sideVars
       /\ UNCHANGED auxVars

\* 'change' of a policy checkbox.
TogglePolicy(policy) ==
    /\ updating = << >>
    /\ SetPanel(updatePolicyState([Panel EXCEPT !.policyToggles[policy] = ~@], policy,
                                  ~policyToggles[policy]))
    /\ togglesApplied' = FALSE
    /\ UNCHANGED <<loading, resultDisplays, pending, updaterVars, rendererVars>>
    /\ UNCHANGED sideVars
    /\ UNCHANGED auxVars

\* 'change' of a BOD sub-policy checkbox; a disabled checkbox takes no input.
ToggleSubPolicy(subPolicy) ==
    /\ updating = << >>
    /\ ~controlsDisabled[subPolicy]
    /\ SetPanel(updateBODSubPolicy([Panel EXCEPT !.bodToggles[subPolicy] = ~@], subPolicy,
                                   ~bodToggles[subPolicy]))
    /\ UNCHANGED <<evalVars, updaterVars, rendererVars>>
    /\ UNCHANGED sideVars
    /\ UNCHANGED auxVars

ToggleExcludeUnlikely ==
    /\ updating = << >>
    /\ excludeUnlikely' = ~excludeUnlikely
    /\ UNCHANGED <<policyToggles, bodToggles, todSliders, podSliders, bodSliders,
                   sectionDisabled, controlsDisabled, evalVars, updaterVars, rendererVars>>
    /\ UNCHANGED sideVars
    /\ UNCHANGED auxVars

EditedSliders ==
    Cardinality({k \in TodKeys : todSliders[k] # TodDefaults[k]})
    + Cardinality({k \in PodKeys : podSliders[k] # PodDefaults[k]})
    + Cardinality({k \in BodKeys : bodSliders[k] # BodDefaults[k]})

SliderDisabled(k) ==
    \/ k \in {"brtInnerDistance", "brtInnerHeight", "brtOuterDistance", "brtOuterHeight"}
       /\ controlsDisabled["brt"]
    \/ k \in {"busDistance", "busHeight"} /\ controlsDisabled["bus"]

\* 'input' of a slider: only the value (and its display) changes.
SliderInput(k, v) ==
    /\ ~alertOpen
    /\ updating = << >>
    /\ ~SliderDisabled(k)
    /\ LET p == IF k \in TodKeys THEN [Panel EXCEPT !.todSliders[k] = v]
                ELSE IF k \in PodKeys THEN [Panel EXCEPT !.podSliders[k] = v]
                ELSE [Panel EXCEPT !.bodSliders[k] = v]
       IN /\ p # Panel
          /\ SetPanel(p)
    /\ EditedSliders' <= MaxSliderEdits
    /\ UNCHANGED <<evalVars, updaterVars, rendererVars>>
    /\ UNCHANGED sideVars
    /\ UNCHANGED auxVars

\* 'click' of the Apply button (not delivered while the button is disabled).
ClickApply ==
    /\ updating = << >>
    /\ ~loading
    /\ apply(Panel)
    /\ UNCHANGED panelVars

\* 'click' of the Reset button: reset(); apply().
ClickReset ==
    /\ updating = << >>
    /\ LET p == reset(Panel)
       IN SetPanel(p) /\ apply(p)

\* 'click' of a policy bubble's remove button: uncheck, updatePolicyState, apply().
ClickRemovePolicy(policy) ==
    /\ updating = << >>
    /\ policyToggles[policy]
    /\ LET p == updatePolicyState([Panel EXCEPT !.policyToggles[policy] = FALSE],
                                  policy, FALSE)
       IN SetPanel(p) /\ apply(p)

\* apply() resumed with the response of request i: updatePanelStats,
\* updateTitleStats, and updateParcels as far as the removal of the old layer.
ResolveEvaluation(i) ==
    /\ updating = << >>
    /\ i \in DOMAIN pending
    /\ ~pending[i].fails
    /\ LET results == evaluatePolicies(pending[i].config)
       IN /\ resultDisplays' = updatePanelStats(results)
          /\ titleStats' = updateTitleStats(results)
          /\ parcelLayersOnMap' = updateWithResults_remove(parcelLayer, parcelLayersOnMap)
          /\ updating' = <<results.geojson>>
    /\ pending' = Without([j \in DOMAIN pending |->
                              IF j < i THEN [pending[j] EXCEPT !.overtaken = TRUE]
                              ELSE pending[j]], i)
    /\ UNCHANGED <<panelVars, loading, togglesApplied, parcelLayer, rendererVars>>
    /\ UNCHANGED sideVars
    /\ UNCHANGED auxVars

\* The rest of the same handler: the new parcel layer is built and added,
\* then the finally block hides the loading state.
PresentParcels ==
    /\ updating # << >>
    /\ LET a == updateWithResults_add(parcelLayer, parcelLayersOnMap, updating[1])
       IN /\ parcelLayer' = a.parcelLayer
          /\ parcelLayersOnMap' = a.onMap
    /\ updating' = << >>
    /\ loading' = FALSE
    /\ UNCHANGED <<panelVars, resultDisplays, pending, togglesApplied, titleStats,
                   rendererVars>>
    /\ UNCHANGED sideVars
    /\ UNCHANGED auxVars

\* apply() resumed with the rejection of request i: catch (alert), finally.
RejectEvaluation(i) ==
    /\ updating = << >>
    /\ i \in DOMAIN pending
    /\ pending[i].fails
    /\ pending' = Without(pending, i)
    /\ loading' = FALSE
    /\ UNCHANGED <<panelVars, resultDisplays, togglesApplied, updaterVars, rendererVars>>
    /\ UNCHANGED sideVars
    /\ UNCHANGED auxVars

\* ===================================================================
\* Feature fetches answered
\* ===================================================================
FeatureCounts == {2}

StationsLoaded(n) ==
    /\ updating = << >>
    /\ "stations" \in fetches
    /\ fetches' = fetches \ {"stations"}
    /\ LET w == Transit_loadStations([r |-> transitRenderer, map |-> mapLayers], n)
       IN transitRenderer' = w.r /\ mapLayers' = w.map
    /\ UNCHANGED <<panelVars, evalVars, updaterVars, installed, parkRenderer, busRenderer>>
    /\ UNCHANGED sideVars
    /\ UNCHANGED auxVars

RailLinesLoaded(n) ==
    /\ updating = << >>
    /\ "railLines" \in fetches
    /\ fetches' = fetches \ {"railLines"}
    /\ LET w == Transit_loadRailLines([r |-> transitRenderer, map |-> mapLayers], n)
       IN transitRenderer' = w.r /\ mapLayers' = w.map
    /\ UNCHANGED <<panelVars, evalVars, updaterVars, installed, parkRenderer, busRenderer>>
    /\ UNCHANGED sideVars
    /\ UNCHANGED auxVars

ParksLoaded(parks) ==
    /\ updating = << >>
    /\ "parks" \in fetches
    /\ fetches' = fetches \ {"parks"}
    /\ LET w == Park_loadParks([r |-> parkRenderer, map |-> mapLayers], parks)
       IN parkRenderer' = w.r /\ mapLayers' = w.map
    /\ UNCHANGED <<panelVars, evalVars, updaterVars, installed, transitRenderer,
                   busRenderer>>
    /\ UNCHANGED sideVars
    /\ UNCHANGED auxVars

StopsLoaded(n) ==
    /\ updating = << >>
    /\ "stops" \in fetches
    /\ fetches' = fetches \ {"stops"}
    /\ LET w == Bus_loadStops([r |-> busRenderer, map |-> mapLayers], n)
       IN busRenderer' = w.r /\ mapLayers' = w.map
    /\ loadAllResult' = [loadAllResult EXCEPT
                            !.stopsCount = IF Bus_updateBufferRingsThrows(
                                                  [r |-> busRenderer', map |-> mapLayers'])
                                           THEN <<0>> ELSE <<n>>]
    /\ UNCHANGED <<panelVars, evalVars, updaterVars, installed, transitRenderer,
                   parkRenderer>>
    /\ UNCHANGED sideVars
    /\ UNCHANGED <<popup, errorBoxes, alertOpen, redrawn, clip, todController, currentPreset>>

\* loadBRTLines resumed with the file's `n` line features.
BRTLinesLoaded(n) ==
    /\ updating = << >>
    /\ "brtLines" \in fetches
    /\ fetches' = fetches \ {"brtLines"}
    /\ LET w == Bus_loadBRTLines([r |-> busRenderer, map |-> mapLayers], n)
       IN busRenderer' = w.r /\ mapLayers' = w.map
    /\ loadAllResult' = [loadAllResult EXCEPT !.linesCount = <<n>>]
    /\ UNCHANGED <<panelVars, evalVars, updaterVars, installed, transitRenderer,
                   parkRenderer>>
    /\ UNCHANGED sideVars
    /\ UNCHANGED <<popup, errorBoxes, alertOpen, redrawn, clip, todController, currentPreset>>

\* A fetch that fails, or is answered with an error status: the loader logs
\* it (loadBRTLines in its !response.ok branch or its catch, the others in
\* their catch) and returns 0.
FetchFailed(f) ==
    /\ updating = << >>
    /\ f \in fetches
    /\ fetches' = fetches \ {f}
    /\ loadAllResult' = IF f = "brtLines" THEN [loadAllResult EXCEPT !.linesCount = <<0>>]
                        ELSE IF f = "stops" THEN [loadAllResult EXCEPT !.stopsCount = <<0>>]
                        ELSE loadAllResult
    /\ UNCHANGED <<panelVars, evalVars, updaterVars, installed, transitRenderer,
                   parkRenderer, busRenderer, mapLayers>>
    /\ UNCHANGED sideVars
    /\ UNCHANGED <<popup, errorBoxes, alertOpen, redrawn, clip, todController, currentPreset>>

\* ===================================================================
\* Specifications
\* ===================================================================
ParkTypes == <<"regional", "community", "neighborhood">>

\* Evaluation and presentation: the page with no renderer, or with the
\* ParkRenderer alone.  The user turns TOD and POD on and off; BOD stays as
\* reset() leaves it.
EvaluatedPolicies == {"tod", "pod"}

Init == \E renderers \in {{}, {"park"}} : InitWith(renderers)

Next ==
    \/ \E policy \in EvaluatedPolicies : TogglePolicy(policy)
    \/ ClickApply
    \/ ClickReset
    \/ \E policy \in EvaluatedPolicies : ClickRemovePolicy(policy)
    \/ \E i \in 1..MaxInFlight : ResolveEvaluation(i)
    \/ PresentParcels
    \/ \E i \in 1..MaxInFlight : RejectEvaluation(i)
    \/ ParksLoaded(ParkTypes)
    \/ \E f \in {"parks"} : FetchFailed(f)

Spec == Init /\ [][Next]_vars

\* Renderers: any set of renderers installed, the Apply button as the only
\* way to apply.
InitRenderers == \E renderers \in SUBSET RendererNames : InitWith(renderers)

NextRenderers ==
    \/ \E policy \in Policies : TogglePolicy(policy)
    \/ ClickApply
    \/ \E i \in 1..MaxInFlight : ResolveEvaluation(i)
    \/ PresentParcels
    \/ \E i \in 1..MaxInFlight : RejectEvaluation(i)
    \/ \E n \in FeatureCounts : StationsLoaded(n)
    \/ \E n \in FeatureCounts : RailLinesLoaded(n)
    \/ ParksLoaded(ParkTypes)
    \/ \E n \in FeatureCounts : StopsLoaded(n)
    \/ \E f \in {"stations", "railLines", "parks", "stops"} : FetchFailed(f)

SpecRenderers == InitRenderers /\ [][NextRenderers]_vars

\* Renderers whose drawing can fail: the page with the TransitRenderer and
\* the BusRenderer, or with the ParkRenderer; drawing a buffer overlay
\* (turf.buffer / turf.union, the canvas _redraw) starts or stops throwing.
DrawingChanges ==
    /\ updating = << >>
    /\ drawing' = IF drawing = "ok" THEN "throws" ELSE "ok"
    /\ UNCHANGED <<panelVars, evalVars, updaterVars, rendererVars, api, notices, calc>>
    /\ UNCHANGED auxVars

BufferedPolicies == {"tod", "bod"}

InitBuffers == \E renderers \in {{"transit", "bus"}, {"park"}} : InitWith(renderers)

NextBuffers ==
    \/ \E policy \in BufferedPolicies : TogglePolicy(policy)
    \/ ClickApply
    \/ \E i \in 1..MaxInFlight : ResolveEvaluation(i)
    \/ PresentParcels
    \/ \E i \in 1..MaxInFlight : RejectEvaluation(i)
    \/ \E n \in {0} \cup FeatureCounts : StationsLoaded(n)
    \/ ParksLoaded(ParkTypes)
    \/ ParksLoaded(<< >>)
    \/ \E n \in {0} \cup FeatureCounts : StopsLoaded(n)
    \/ DrawingChanges

SpecBuffers == InitBuffers /\ [][NextBuffers]_vars

\* BusRenderer.loadAll: the BRT line file and the bus stop file fetched side
\* by side, on the page with the BusRenderer alone; the user turns BOD on
\* and off, moves the bus distance slider and applies, and the map fires its
\* events.

\* The map fires moveend, zoomend or resize: every _redraw bound to it runs,
\* and draws unless its layer is off the map (no _map).
MapEvent(e) ==
    /\ updating = << >>
    /\ redrawn' = [event |-> e,
                   layers |-> SelectSeq(busRenderer.redrawHandlers,
                                        LAMBDA h : \E l \in mapLayers :
                                                      l.kind = "bodBuffer" /\ l.id = h)]
    /\ UNCHANGED <<panelVars, evalVars, updaterVars, rendererVars>>
    /\ UNCHANGED sideVars
    /\ UNCHANGED <<popup, loadAllResult, errorBoxes, alertOpen, clip, todController, currentPreset>>

NextBusLoad ==
    \/ \E e \in {"moveend", "zoomend", "resize"} : MapEvent(e)
    \/ \E n \in FeatureCounts : BRTLinesLoaded(n)
    \/ \E n \in FeatureCounts : StopsLoaded(n)
    \/ \E f \in {"brtLines", "stops"} : FetchFailed(f)
    \/ TogglePolicy("bod")
    \/ \E v \in SliderInputs("busDistance") : SliderInput("busDistance", v)
    \/ ClickApply
    \/ \E i \in 1..MaxInFlight : ResolveEvaluation(i)
    \/ PresentParcels
    \/ \E i \in 1..MaxInFlight : RejectEvaluation(i)

SpecBusLoad == InitWith({"bus"}) /\ [][NextBusLoad]_vars

\* The panel alone: every control of the panel, on the page with all three
\* renderers installed.
InitPanelOnly == InitWith(RendererNames)

NextPanel ==
    \/ \E policy \in Policies : TogglePolicy(policy)
    \/ \E subPolicy \in SubPolicies : ToggleSubPolicy(subPolicy)
    \/ ToggleExcludeUnlikely
    \/ \E k \in TodKeys \cup PodKeys \cup BodKeys : \E v \in SliderInputs(k) : SliderInput(k, v)
    \/ ClickApply
    \/ ClickReset
    \/ \E policy \in Policies : ClickRemovePolicy(policy)

SpecPanel == InitPanelOnly /\ [][NextPanel]_vars

\* The compute boundary: the page with no renderer, the panel in any state
\* the user can bring it to with the checkboxes and at most MaxSliderEdits
\* sliders moved; the configuration is applied and the answer presented.
Toggled(p, policy) ==
    updatePolicyState([p EXCEPT !.policyToggles[policy] = ~@], policy,
                      ~p.policyToggles[policy])

PanelSubToggled(p, subPolicy) ==
    updateBODSubPolicy([p EXCEPT !.bodToggles[subPolicy] = ~@], subPolicy,
                       ~p.bodToggles[subPolicy])

PanelSlid(p, k, v) ==
    IF k \in TodKeys THEN [p EXCEPT !.todSliders[k] = v]
    ELSE IF k \in PodKeys THEN [p EXCEPT !.podSliders[k] = v]
    ELSE [p EXCEPT !.bodSliders[k] = v]

RECURSIVE PanelsSlid(_, _)
PanelsSlid(panels, n) ==
    IF n = 0 THEN panels
    ELSE PanelsSlid(panels \cup {PanelSlid(p, k, v) :
                                    p \in panels,
                                    k \in TodKeys \cup PodKeys \cup BodKeys,
                                    v \in DistanceInputs \cup HeightInputs},
                    n - 1)

PanelInputs ==
    LET a == {reset(BlankPanel)}
        b == a \cup {Toggled(p, "tod") : p \in a}
        c == b \cup {Toggled(p, "pod") : p \in b}
        d == c \cup {Toggled(p, "bod") : p \in c}
        e == d \cup {PanelSubToggled(p, "brt") : p \in d}
        f == e \cup {PanelSubToggled(p, "bus") : p \in e}
    IN {p \in PanelsSlid(f, MaxSliderEdits) :
           \A k \in TodKeys \cup PodKeys \cup BodKeys :
              LET v == IF k \in TodKeys THEN p.todSliders[k]
                       ELSE IF k \in PodKeys THEN p.podSliders[k] ELSE p.bodSliders[k]
                  dflt == IF k \in TodKeys THEN TodDefaults[k]
                          ELSE IF k \in PodKeys THEN PodDefaults[k] ELSE BodDefaults[k]
              IN v = dflt \/ v \in SliderInputs(k)}

InitEvaluator == \E p \in PanelInputs : InitPage(p, {})

NextEvaluator ==
    \/ ClickApply
    \/ \E i \in 1..MaxInFlight : ResolveEvaluation(i)
    \/ PresentParcels
    \/ \E i \in 1..MaxInFlight : RejectEvaluation(i)

SpecEvaluator == InitEvaluator /\ [][NextEvaluator]_vars

\* The single-policy page: MileHighAPI (js/api-client.js), TODController
\* (js/tod-controller.js), the ConfigPanel of js/config-panel.js and the
\* TransitRenderer.  A call of the API client is idle, calling, resolved or
\* rejected; the server's answer is chosen when the call settles.
ServerAnswers == {"ok", "unreachable", "errorJson", "errorNoJson"}

Calling == [state |-> "calling", answer |-> "none"]

\* How a call settles.  fetch() rejects when the server is unreachable.
\* healthCheck returns response.json() whatever the status, so an error
\* status resolves when its body is JSON and rejects (in the catch) when it
\* is not; the other methods throw on !response.ok.
Settle(method, answer) ==
    IF method = "healthCheck"
    THEN [state |-> IF answer \in {"ok", "errorJson"} THEN "resolved" ELSE "rejected",
          answer |-> answer]
    ELSE [state |-> IF answer = "ok" THEN "resolved" ELSE "rejected",
          answer |-> answer]

\* getConfig of js/config-panel.js: the three rings of the sliders.
Single_getConfig(p) ==
    [rings |-> <<[distance |-> p.todSliders.ring1Distance,
                  height |-> p.todSliders.ring1Height,
                  zone |-> <<"C-MX-", p.todSliders.ring1Height, "x">>],
                 [distance |-> p.todSliders.ring2Distance,
                  height |-> p.todSliders.ring2Height,
                  zone |-> <<"G-RX-", p.todSliders.ring2Height, "x">>],
                 [distance |-> p.todSliders.ring3Distance,
                  height |-> p.todSliders.ring3Height,
                  zone |-> <<"G-MU-", p.todSliders.ring3Height, "x">>]>>,
     include_light_rail |-> TRUE, include_brt |-> FALSE,
     include_frequent_bus |-> FALSE, exclude_unlikely |-> p.excludeUnlikely]

\* The answer of POST /api/evaluate-tod, whose implementation is not among
\* the sources: the parcels within a ring of a station, with the counts the
\* panel displays.
evaluateTOD(config) ==
    LET ringOf(i) == AssignRing(config.rings, ParcelDistance[i].tod)
        inRing(k) == {i \in ParcelIds : ringOf(i) = <<config.rings[k]>>}
        ids == {i \in ParcelIds : ringOf(i) # << >>}
        features == {[parcel_id |-> i, policy_source |-> "TOD",
                      assigned_height |-> ringOf(i)[1].height,
                      ring_density |-> "none",
                      potential_units |->
                          calculate_potential_units(ParcelAcres[i], ringOf(i)[1].height)] :
                        i \in ids}
    IN [type |-> "FeatureCollection", features |-> features,
        metadata |-> [total_parcels |-> Cardinality(features),
                      total_units |-> SumUnits(features),
                      parcels_by_ring |-> [k \in 1..3 |-> Cardinality(inRing(k))]]]

\* updateResults of js/config-panel.js.
Single_updateResults(results) ==
    [parcels |-> formatNumber(results.total_parcels),
     units |-> formatNumber(results.total_units),
     ring1 |-> formatNumber(results.parcels_by_ring[1]),
     ring2 |-> formatNumber(results.parcels_by_ring[2]),
     ring3 |-> formatNumber(results.parcels_by_ring[3])]

InitApi ==
    /\ InitPanel(reset(BlankPanel))
    /\ loading = FALSE
    /\ resultDisplays = [parcels |-> Dashes, units |-> Dashes, ring1 |-> Dashes,
                         ring2 |-> Dashes, ring3 |-> Dashes]
    /\ pending = << >>
    /\ togglesApplied = FALSE
    /\ parcelLayer = NoParcelLayer
    /\ parcelLayersOnMap = {}
    /\ titleStats = [units |-> Dashes, parcels |-> Dashes]
    /\ updating = << >>
    /\ installed = {"transit"}
    /\ fetches = FetchesOf({"transit"})
    /\ transitRenderer = TransitInit
    /\ parkRenderer = ParkInit
    /\ busRenderer = BusInit
    /\ mapLayers = {}
    /\ api = [m \in ApiMethods |->
                IF m \in {"getStations", "getRailLines"} THEN Calling ELSE NoCall]
    /\ notices = {}
    /\ drawing = "ok"
    /\ calc = NoCalc
    /\ InitAux

\* TODController.init, run from the constructor 500 ms after DOMContentLoaded:
\* up to its await of healthCheck().
TODController_init ==
    /\ ~alertOpen
    /\ api["healthCheck"].state = "idle"
    /\ api' = [api EXCEPT !["healthCheck"] = Calling]
    /\ UNCHANGED <<panelVars, evalVars, updaterVars, rendererVars, notices, drawing, calc>>
    /\ UNCHANGED auxVars

\* TODController.init resumed: a rejection is caught and shown (showError:
\* a box appended to the document, with a timer that removes it).
HealthCheckSettled(answer) ==
    /\ ~alertOpen
    /\ api["healthCheck"].state = "calling"
    /\ api' = [api EXCEPT !["healthCheck"] = Settle("healthCheck", answer)]
    /\ notices' = IF api'["healthCheck"].state = "rejected"
                  THEN notices \cup {"healthCheck"} ELSE notices
    /\ errorBoxes' = IF api'["healthCheck"].state = "rejected"
                     THEN errorBoxes + 1 ELSE errorBoxes
    /\ UNCHANGED <<panelVars, evalVars, updaterVars, rendererVars, drawing, calc>>
    /\ UNCHANGED <<popup, loadAllResult, alertOpen, redrawn, clip, todController, currentPreset>>

\* The timer of showError fires: its box is removed.
ErrorBoxTimeout ==
    /\ ~alertOpen
    /\ errorBoxes > 0
    /\ errorBoxes' = errorBoxes - 1
    /\ UNCHANGED <<panelVars, evalVars, updaterVars, rendererVars, api, notices, drawing,
                   calc>>
    /\ UNCHANGED <<popup, loadAllResult, alertOpen, redrawn, clip, todController, currentPreset>>

\* loadStations resumed: the stations drawn, or the rejection caught and
\* logged to the console (return 0).
GetStationsSettled(answer, n) ==
    /\ ~alertOpen
    /\ api["getStations"].state = "calling"
    /\ api' = [api EXCEPT !["getStations"] = Settle("getStations", answer)]
    /\ fetches' = fetches \ {"stations"}
    /\ LET w == Transit_loadStations([r |-> transitRenderer, map |-> mapLayers], n)
       IN IF api'["getStations"].state = "resolved"
          THEN transitRenderer' = w.r /\ mapLayers' = w.map
          ELSE UNCHANGED <<transitRenderer, mapLayers>>
    /\ UNCHANGED <<panelVars, evalVars, updaterVars, installed, parkRenderer, busRenderer,
                   notices, drawing, calc>>
    /\ UNCHANGED auxVars

\* loadRailLines resumed, likewise.
GetRailLinesSettled(answer, n) ==
    /\ ~alertOpen
    /\ api["getRailLines"].state = "calling"
    /\ api' = [api EXCEPT !["getRailLines"] = Settle("getRailLines", answer)]
    /\ fetches' = fetches \ {"railLines"}
    /\ LET w == Transit_loadRailLines([r |-> transitRenderer, map |-> mapLayers], n)
       IN IF api'["getRailLines"].state = "resolved"
          THEN transitRenderer' = w.r /\ mapLayers' = w.map
          ELSE UNCHANGED <<transitRenderer, mapLayers>>
    /\ UNCHANGED <<panelVars, evalVars, updaterVars, installed, parkRenderer, busRenderer,
                   notices, drawing, calc>>
    /\ UNCHANGED auxVars

\* selectPreset(preset) of the single-policy panel: 'ballot' writes the
\* ballot values into the six sliders, any other preset leaves them.
Single_selectPreset_keepsValues(p, preset) == p

Single_selectPreset(p, preset) ==
    IF preset = "ballot" THEN [p EXCEPT !.todSliders = TodDefaults] ELSE p

\* 'click' of a preset button.
ClickPreset(preset) ==
    /\ ~alertOpen
    /\ SetPanel(Single_selectPreset(Panel, preset))
    /\ currentPreset' = preset
    /\ UNCHANGED <<evalVars, updaterVars, rendererVars>>
    /\ UNCHANGED sideVars
    /\ UNCHANGED <<popup, loadAllResult, errorBoxes, alertOpen, redrawn, clip, todController>>

\* 'input' of a slider of the single-policy panel: the value and its
\* display change, and the 'ballot' preset gives way to 'custom'.
Single_sliderInput(k, v) ==
    /\ ~alertOpen
    /\ todSliders[k] # v
    /\ SetPanel(IF currentPreset = "ballot"
                THEN Single_selectPreset([Panel EXCEPT !.todSliders[k] = v], "custom")
                ELSE [Panel EXCEPT !.todSliders[k] = v])
    /\ currentPreset' = IF currentPreset = "ballot" THEN "custom" ELSE currentPreset
    /\ EditedSliders' <= MaxSliderEdits
    /\ UNCHANGED <<evalVars, updaterVars, rendererVars>>
    /\ UNCHANGED sideVars
    /\ UNCHANGED <<popup, loadAllResult, errorBoxes, alertOpen, redrawn, clip, todController>>

\* 'click' of Apply on the single-policy panel (the button is disabled while
\* loading): showLoading, getConfig, TODController.evaluate up to its await
\* of evaluateTOD(): the buffer is redrawn at the ring 3 distance.
Single_apply ==
    /\ ~alertOpen
    /\ ~loading
    /\ api["healthCheck"].state # "idle"
    /\ loading' = TRUE
    /\ LET config == Single_getConfig(Panel)
           w == Transit_updateBufferRings([r |-> transitRenderer, map |-> mapLayers],
                                          config.rings[3].distance)
       IN transitRenderer' = w.r /\ mapLayers' = w.map
    /\ api' = [api EXCEPT !["evaluateTOD"] = Calling]
    /\ todController' = [todController EXCEPT !.config = Single_getConfig(Panel)]
    /\ UNCHANGED <<panelVars, resultDisplays, pending, togglesApplied, updaterVars,
                   installed, fetches, parkRenderer, busRenderer, notices, drawing, calc>>
    /\ UNCHANGED <<popup, loadAllResult, errorBoxes, alertOpen, redrawn, clip, currentPreset>>

\* 'click' of Reset on the single-policy panel: selectPreset('ballot'), then
\* apply() as above with the restored values.  The button stays enabled
\* while loading; the model keeps one evaluation in flight at a time.
Single_reset ==
    /\ ~alertOpen
    /\ ~loading
    /\ api["healthCheck"].state # "idle"
    /\ SetPanel(Single_selectPreset(Panel, "ballot"))
    /\ currentPreset' = "ballot"
    /\ loading' = TRUE
    /\ LET config == Single_getConfig(Single_selectPreset(Panel, "ballot"))
           w == Transit_updateBufferRings([r |-> transitRenderer, map |-> mapLayers],
                                          config.rings[3].distance)
       IN /\ transitRenderer' = w.r
          /\ mapLayers' = w.map
          /\ todController' = [todController EXCEPT !.config = config]
    /\ api' = [api EXCEPT !["evaluateTOD"] = Calling]
    /\ UNCHANGED <<resultDisplays, pending, togglesApplied, updaterVars,
                   installed, fetches, parkRenderer, busRenderer, notices, drawing, calc>>
    /\ UNCHANGED <<popup, loadAllResult, errorBoxes, alertOpen, redrawn, clip>>

\* apply() resumed: updateUI with the results and, in the finally,
\* hideLoading; or the rejection rethrown by evaluate() and caught by apply(),
\* which opens alert() and waits in it.
EvaluateTODSettled(answer) ==
    /\ ~alertOpen
    /\ api["evaluateTOD"].state = "calling"
    /\ api' = [api EXCEPT !["evaluateTOD"] = Settle("evaluateTOD", answer)]
    /\ IF api'["evaluateTOD"].state = "resolved"
       THEN LET results == evaluateTOD(todController.config)
                a == updateWithResults_add(
                         parcelLayer,
                         updateWithResults_remove(parcelLayer, parcelLayersOnMap),
                         results)
            IN /\ parcelLayer' = a.parcelLayer
               /\ parcelLayersOnMap' = a.onMap
               /\ resultDisplays' = Single_updateResults(results.metadata)
               /\ loading' = FALSE
               /\ todController' = [todController EXCEPT !.currentResults = results]
               /\ UNCHANGED <<popup, notices, alertOpen>>
       ELSE /\ notices' = notices \cup {"evaluateTOD"}
            /\ alertOpen' = TRUE
            /\ UNCHANGED <<popup, parcelLayer, parcelLayersOnMap, resultDisplays, loading,
                           todController>>
    /\ UNCHANGED <<panelVars, pending, togglesApplied, titleStats, updating,
                   rendererVars, drawing, calc>>
    /\ UNCHANGED <<popup, loadAllResult, errorBoxes, redrawn, clip, currentPreset>>

\* The user closes the alert: apply() goes on to its finally, hideLoading.
\* Nothing else of the page runs while the dialog is open.
DismissAlert ==
    /\ alertOpen
    /\ alertOpen' = FALSE
    /\ loading' = FALSE
    /\ UNCHANGED <<panelVars, resultDisplays, pending, togglesApplied, updaterVars,
                   rendererVars, api, notices, drawing, calc>>
    /\ UNCHANGED <<popup, loadAllResult, errorBoxes, redrawn, clip, todController, currentPreset>>

NextApi ==
    \/ TODController_init
    \/ \E a \in ServerAnswers : HealthCheckSettled(a)
    \/ \E a \in ServerAnswers, n \in FeatureCounts : GetStationsSettled(a, n)
    \/ \E a \in ServerAnswers, n \in FeatureCounts : GetRailLinesSettled(a, n)
    \/ Single_apply
    \/ \E a \in ServerAnswers : EvaluateTODSettled(a)
    \/ DismissAlert
    \/ ErrorBoxTimeout
    \/ \E k \in {"ring1Distance", "ring3Distance"} :
          \E v \in SliderInputs(k) \cup {TodDefaults[k]} : Single_sliderInput(k, v)
    \/ \E preset \in {"ballot", "custom"} : ClickPreset(preset)
    \/ Single_reset

SpecApi == InitApi /\ [][NextApi]_vars

\* The viewport test of CanvasBufferLayer._redraw on its own: one pass of
\* its loop over the stops, for a stop whose centre and radius come out of
\* the projection as whole pixels (container points are rounded) and a map
\* of size.x by size.y pixels.
MaxPixel == 3

\* A viewport test that looks at the centre of the stop only.
Redraw_skips_centreOnly(centerPx, radiusPx, size) ==
    \/ centerPx.x < 0 \/ centerPx.x > size.x
    \/ centerPx.y < 0 \/ centerPx.y > size.y

\* The condition of the `continue`.
Redraw_skips(centerPx, radiusPx, size) ==
    \/ centerPx.x + radiusPx < 0 \/ centerPx.x - radiusPx > size.x
    \/ centerPx.y + radiusPx < 0 \/ centerPx.y - radiusPx > size.y

RedrawStop(centerPx, radiusPx, size) ==
    /\ clip' = [centerPx |-> centerPx, radiusPx |-> radiusPx, size |-> size,
                drawn |-> ~Redraw_skips(centerPx, radiusPx, size)]
    /\ UNCHANGED <<panelVars, evalVars, updaterVars, rendererVars>>
    /\ UNCHANGED sideVars
    /\ UNCHANGED <<popup, loadAllResult, errorBoxes, alertOpen, redrawn, todController, currentPreset>>

SpecClip ==
    /\ InitWith({"bus"})
    /\ [][\E x, y \in (0 - MaxPixel)..(2 * MaxPixel), r \in 0..MaxPixel,
               w, h \in {MaxPixel - 1, MaxPixel} :
             RedrawStop([x |-> x, y |-> y], r, [x |-> w, y |-> h])]_vars

\* MapUpdater.createPopupContent(parcel), the parts of the popup that are
\* chosen by tests: the header, the distance label and the distance row.
\* A property of the parcel is << >> when it is null or missing and <<v>>
\* when it has the value v; a string is the sequence of its characters and a
\* distance is in tenths of a foot.  a || b is a when a is truthy (neither
\* null nor 0), else b; the row is rendered when distanceValue is truthy and
\* shows Math.round of it.
createPopupContent(parcel) ==
    LET truthy(v) == v # << >> /\ v[1] # 0
        blank(str) == \A i \in DOMAIN str : str[i] = " "
        startsWith(str, prefix) ==
            Len(str) >= Len(prefix) /\ SubSeq(str, 1, Len(prefix)) = prefix
        or(a, b) == IF truthy(a) THEN a ELSE b
        source == parcel.policy_source
        isPOD == source # << >> /\ source[1] # << >>
                    /\ startsWith(source[1], <<"P", "O", "D">>)
        isBOD == source # << >> /\ source[1] # << >>
                    /\ startsWith(source[1], <<"B", "O", "D">>)
        distanceValue ==
            IF isPOD THEN or(or(parcel.distance, parcel.distance_to_regional_park),
                             parcel.distance_to_community_park)
            ELSE IF isBOD THEN parcel.distance
            ELSE parcel.distance_to_light_rail
    IN [headerText |->
            IF parcel.address # << >> /\ ~blank(parcel.address[1])
            THEN parcel.address[1]
            ELSE IF parcel.parcel_id # << >> /\ parcel.parcel_id[1] # << >>
                 THEN <<"Parcel ">> \o parcel.parcel_id[1]
                 ELSE <<"Address not available">>,
        distanceLabel |-> IF isPOD THEN "Distance to Park:"
                          ELSE IF isBOD THEN "Distance to Bus:"
                          ELSE "Distance to Transit:",
        distanceRow |-> IF truthy(distanceValue)
                        THEN <<(distanceValue[1] + 5) \div 10>> ELSE << >>]

\* onEachFeature of the parcel layer: the popup of one parcel is built from
\* the feature's properties (address a, parcel_id id, policy_source ps,
\* distance d, distance_to_light_rail dl, distance_to_regional_park dr,
\* distance_to_community_park dc) and bound to its layer.
BindPopup(a, id, ps, d, dl, dr, dc) ==
    /\ LET parcel == [address |-> a, parcel_id |-> id, policy_source |-> ps,
                      distance |-> d, distance_to_light_rail |-> dl,
                      distance_to_regional_park |-> dr,
                      distance_to_community_park |-> dc]
       IN popup' = <<[parcel |-> parcel, content |-> createPopupContent(parcel)]>>
    /\ UNCHANGED <<panelVars, evalVars, updaterVars, rendererVars>>
    /\ UNCHANGED sideVars
    /\ UNCHANGED <<loadAllResult, errorBoxes, alertOpen, redrawn, clip, todController,
                   currentPreset>>

\* createPopupContent on its own, for parcels whose address is missing,
\* empty, blank or not, whose id is there or not, of each policy or none,
\* and whose distances are missing, 0, under half a foot or more.
SpecPopup ==
    /\ InitWith({})
    /\ [][\E a \in {<< >>, << << >> >>, << <<" ">> >>, << <<" ", "9", "A">> >>},
             id \in {<< >>, << <<"0", "5">> >>},
             ps \in {<< >>, << <<"T", "O", "D">> >>,
                                << <<"P", "O", "D", "-", "R">> >>, << <<"B", "O", "D">> >>},
             d \in {<< >>, <<0>>, <<4>>, <<1200>>},
             dl \in {<< >>, <<0>>, <<3000>>},
             dr \in {<< >>, <<4500>>},
             dc \in {<< >>, <<6000>>} :
             BindPopup(a, id, ps, d, dl, dr, dc)]_vars

\* The schema's helper function on its own: calculate_potential_units called
\* with a land area (hundredths of an acre) and a story count; calc keeps the
\* last two calls, newest first.
MaxStories == 22

StoryInputs == (0 - 1)..MaxStories

LandInputs == {0, 25, 110, 305}

Calculate(land_area_acres, stories) ==
    /\ calc' = <<[land_area_acres |-> land_area_acres, stories |-> stories,
                  units_per_acre |-> units_per_acre(stories),
                  units |-> calculate_potential_units(land_area_acres, stories)]>>
                \o SubSeq(calc, 1, IF calc = << >> THEN 0 ELSE 1)
    /\ UNCHANGED <<panelVars, evalVars, updaterVars, rendererVars, api, notices, drawing>>
    /\ UNCHANGED auxVars

NextUnits == \E a \in LandInputs, s \in StoryInputs : Calculate(a, s)

SpecUnits == InitWith({}) /\ [][NextUnits]_vars

\* ===================================================================
\* Properties
\* ===================================================================
InFlight == 1..MaxInFlight

\* What the user is shown of the evaluation: counters and parcel layers.
shownResult == <<resultDisplays, titleStats, parcelLayersOnMap>>

\* A renderer layer as it looks, whichever layer object it is.
Look(l) == [kind |-> l.kind, feet |-> l.feet, feet2 |-> l.feet2, features |-> l.features]
shownLayers == {Look(l) : l \in mapLayers}

BufferKind(policy) ==
    CASE policy = "tod" -> "todBuffer" [] policy = "pod" -> "podBuffer" [] OTHER -> "bodBuffer"

\* The feature layers a policy's renderer holds (loaded), and whether each is
\* registered as the policy's toggle says.
FeatureLayers(policy) ==
    CASE policy = "tod" -> {transitRenderer.stationsLayer, transitRenderer.railLinesLayer}
      [] policy = "pod" -> {parkRenderer.parksLayer}
      [] OTHER -> {busRenderer.stopsLayer}

VisibilityFollowsToggle(policy) ==
    /\ \A l \in FeatureLayers(policy) \ {NoLayer} : (l \in mapLayers) <=> policyToggles[policy]
    /\ ~policyToggles[policy] => LayersOf(mapLayers, BufferKind(policy)) = {}

AnyApply == ClickApply \/ ClickReset \/ \E policy \in Policies : ClickRemovePolicy(policy)

\* C1: last write wins.  With apply(A) then apply(B) both in flight, whatever
\* the order of the answers the result shown in the end is B's: a response
\* that arrives after the response of a later request was applied is
\* discarded, it changes neither the counters nor the parcels shown.
C1_StaleResponseDiscarded ==
    [][\A i \in InFlight :
          (i \in DOMAIN pending /\ pending[i].overtaken /\ ResolveEvaluation(i))
              => /\ UNCHANGED <<resultDisplays, titleStats>>
                 /\ updating'[1].features = parcelLayer.features]_vars

\* C2: a failed apply() mutates no presented state: neither the call that
\* issues an evaluation which fails nor the handling of the failure changes
\* the parcel layer, the counters, the buffer overlays or the visibility of
\* the feature layers.
C2_FailedApplyMutatesNothing ==
    [][/\ (Len(pending') = Len(pending) + 1 /\ pending'[Len(pending')].fails)
           => (UNCHANGED shownResult /\ shownLayers' = shownLayers)
       /\ \A i \in InFlight :
           RejectEvaluation(i) => (UNCHANGED shownResult /\ shownLayers' = shownLayers)]_vars

\* C3: at most one evaluation request is in flight at any time.
C3_OneEvaluationInFlight == Len(pending) <= 1

\* C4: no apply() leaves the controller stuck in Evaluating: whenever the
\* loading state is shown, an evaluation is in flight (or its response is
\* being presented) whose outcome will clear it.
C4_LoadingOnlyWhileEvaluating == loading => (pending # << >> \/ updating # << >>)

\* C5: once a policy has been disabled and applied, no buffer overlay of it
\* is registered with the map while it stays disabled, a late feature load
\* included.
C5_NoOverlayOfDisabledPolicy ==
    \A policy \in Policies :
        (togglesApplied /\ ~policyToggles[policy])
            => LayersOf(mapLayers, BufferKind(policy)) = {}

\* C6: when apply() returns to the event loop (its first suspension point),
\* every policy's feature layers and buffer overlay already follow the
\* toggle state the call was made with.
C6_VisibilityUpdatedBeforeAwait ==
    [][AnyApply => \A policy \in Policies : VisibilityFollowsToggle(policy)']_vars

\* C7: applying with POD disabled while TOD stays enabled with unchanged
\* rings removes POD's overlay and POD's parcels only: the TOD overlay layer
\* registered before the call is the one registered after it, and the
\* response carries no POD parcel.
C7_OnlyPodRemoved ==
    [][/\ (/\ AnyApply
           /\ policyToggles'["tod"] /\ ~policyToggles'["pod"]
           /\ \E l \in LayersOf(mapLayers, "todBuffer") :
                  l.feet = todSliders'.ring3Distance)
          => /\ LayersOf(mapLayers', "todBuffer") = LayersOf(mapLayers, "todBuffer")
             /\ LayersOf(mapLayers', "podBuffer") = {}
       /\ \A i \in InFlight :
          (/\ ResolveEvaluation(i)
           /\ pending[i].config.tod.enabled /\ ~pending[i].config.pod.enabled)
          => {f \in updating'[1].features : f.policy_source = "POD"} = {}]_vars

\* C8: after reset() from any panel state getConfig() is the ballot-measure
\* preset, and reset() twice is reset() once.
RingValues(rings) == [i \in DOMAIN rings |-> <<rings[i].distance, rings[i].height>>]

IsBallotMeasure(config) ==
    /\ config.tod.enabled
    /\ RingValues(config.tod.rings) = << <<500, 8>>, <<1000, 5>>, <<1500, 3>> >>
    /\ config.pod.enabled
    /\ RingValues(config.pod.regional_parks) = << <<250, 5>>, <<750, 3>> >>
    /\ RingValues(config.pod.community_parks) = << <<250, 3>> >>
    /\ config.bod.enabled
    /\ config.bod.bus_enabled
    /\ RingValues(config.bod.bus_rings) = << <<250, 3>> >>
    /\ ~config.bod.brt_enabled
    /\ config.bod.brt_rings = << >>

C9_NoGapInReplacement ==
    (updating # << >> /\ parcelLayer # NoParcelLayer) => parcelLayersOnMap # {}

\* C10: at most one parcel layer is registered with the map, and a present
\* leaves exactly one, holding exactly the features of the result presented.
C10_OneParcelLayer ==
    /\ [](/\ Cardinality(parcelLayersOnMap) <= 1
          /\ parcelLayersOnMap \subseteq {parcelLayer})
    /\ [][PresentParcels =>
            /\ parcelLayersOnMap' = {parcelLayer'}
            /\ parcelLayer'.features = updating[1].features]_vars

\* C10 witness: a second result with other parcels has replaced a first one.
C10_Witness ==
    /\ updating = << >>
    /\ parcelLayer.id = 2
    /\ parcelLayersOnMap = {parcelLayer}
    /\ parcelLayer.features # {}
    /\ Cardinality(parcelLayer.features) < Cardinality(ParcelIds)

BufferDistances == {250, 750, 2000}
BufferKinds == {"todBuffer", "podBuffer", "bodBuffer"}

\* The feature data a renderer holds and the feature layers on the map.
FeatureData(t, k, b) ==
    <<t.stations, t.stationsLayer, t.railLinesLayer, k.parksFeatures, k.parksLayer,
      b.stops, b.stopsLayer, b.brtLinesLayer>>
FeaturesOnMap(map) == {l \in map : l.kind \notin BufferKinds}

\* C11: changing a buffer distance reloads no feature data: updateBufferRings
\* / updateBuffers leave the stored feature lists and the feature layers as
\* they are and redraw the buffer overlay only; every apply() does the same
\* and starts no fetch.
C11_DistanceChangeReloadsNothing ==
    /\ [](\A d \in BufferDistances :
            LET t == Transit_updateBufferRings([r |-> transitRenderer, map |-> mapLayers], d)
                k == Park_updateBuffers([r |-> parkRenderer, map |-> mapLayers], d, d)
                b == Bus_updateBufferRings([r |-> busRenderer, map |-> mapLayers], d)
            IN /\ FeatureData(t.r, k.r, b.r)
                      = FeatureData(transitRenderer, parkRenderer, busRenderer)
               /\ \A u \in {t, k, b} : FeaturesOnMap(u.map) = FeaturesOnMap(mapLayers)
               /\ transitRenderer.stations > 0
                      => LayersOf(t.map, "todBuffer") = {t.r.bufferRingsLayer}
                         /\ t.r.bufferRingsLayer.feet = d
               /\ parkRenderer.parksFeatures # << >>
                      => LayersOf(k.map, "podBuffer") = {k.r.bufferRingsLayer}
                         /\ k.r.bufferRingsLayer.feet = d
               /\ busRenderer.stops > 0
                      => LayersOf(b.map, "bodBuffer") = {b.r.bufferCanvasLayer}
                         /\ b.r.bufferCanvasLayer.feet = d)
    /\ [][AnyApply =>
            /\ fetches' = fetches
            /\ FeatureData(transitRenderer', parkRenderer', busRenderer')
                   = FeatureData(transitRenderer, parkRenderer, busRenderer)]_vars

\* C11 witness: stations and stops are loaded, their buffers drawn, and an
\* apply() has redrawn them.
C11_Witness ==
    /\ transitRenderer.stations > 0 /\ busRenderer.stops > 0
    /\ togglesApplied
    /\ LayersOf(mapLayers, "todBuffer") # {} /\ LayersOf(mapLayers, "bodBuffer") # {}

BufferFeet(policy) ==
    CASE policy = "tod" -> todSliders.ring3Distance
      [] policy = "pod" -> podSliders.regionalOuterDistance
      [] OTHER -> bodSliders.busDistance

\* In the handler of a response, between the counters and the new layer.
PresentingAsConfigured ==
    LET results == evaluatePolicies(getConfig(Panel))
    IN /\ resultDisplays = updatePanelStats(results)
       /\ titleStats = updateTitleStats(results)
       /\ updating[1].features = results.geojson.features
       /\ \A policy \in Policies :
            policyToggles[policy] =>
               /\ FeatureLayers(policy) \ {NoLayer} \subseteq mapLayers
               /\ \A l \in LayersOf(mapLayers, BufferKind(policy)) :
                      l.feet = BufferFeet(policy)
               /\ Cardinality(LayersOf(mapLayers, BufferKind(policy))) <= 1
               /\ (policy = "tod" /\ transitRenderer.stations > 0)
                      => LayersOf(mapLayers, "todBuffer") # {}
               /\ (policy = "bod" /\ busRenderer.stops > 0)
                      => LayersOf(mapLayers, "bodBuffer") # {}

FeatureClasses == {"tod", "regional", "community", "brt", "bus"}

ClassRings(config, class) ==
    CASE class = "tod" -> IF config.tod.enabled THEN config.tod.rings ELSE << >>
      [] class = "regional" -> IF config.pod.enabled THEN config.pod.regional_parks ELSE << >>
      [] class = "community" -> IF config.pod.enabled THEN config.pod.community_parks ELSE << >>
      [] class = "brt" -> IF config.bod.enabled THEN config.bod.brt_rings ELSE << >>
      [] OTHER -> IF config.bod.enabled THEN config.bod.bus_rings ELSE << >>

ClassLabel(class) ==
    CASE class = "tod" -> "TOD" [] class \in {"regional", "community"} -> "POD"
      [] OTHER -> "BOD"

Satisfied(rings, d) == {i \in DOMAIN rings : rings[i].distance >= d}

SmallestSatisfied(rings, d) ==
    {i \in Satisfied(rings, d) :
        \A j \in Satisfied(rings, d) : rings[i].distance <= rings[j].distance}

RingAssignmentHolds(config, features) ==
    /\ \A class \in FeatureClasses : \A p \in ParcelIds :
          LET rings == ClassRings(config, class)
              d == ParcelDistance[p][class]
              r == AssignRing(rings, d)
          IN /\ (r = << >>) <=> (Satisfied(rings, d) = {})
             /\ r # << >> => \E i \in SmallestSatisfied(rings, d) : r[1] = rings[i]
    /\ \A f \in features :
          \E class \in FeatureClasses :
             LET rings == ClassRings(config, class)
                 d == ParcelDistance[f.parcel_id][class]
             IN /\ ClassLabel(class) = f.policy_source
                /\ \E i \in SmallestSatisfied(rings, d) :
                      /\ rings[i].height = f.assigned_height
                      /\ rings[i].density = f.ring_density
    /\ \A p \in ParcelIds :
          (\A class \in FeatureClasses :
              Satisfied(ClassRings(config, class), ParcelDistance[p][class]) = {})
              => \A f \in features : f.parcel_id # p

C14_UnitsPerAcreMonotone ==
    \A i \in DOMAIN calc : \A j \in DOMAIN calc :
       LET c == calc[i]
           d == calc[j]
           exact == c.land_area_acres * c.units_per_acre
           off == 100 * c.units - exact
       IN /\ c.stories <= d.stories => c.units_per_acre <= d.units_per_acre
          /\ (c.stories <= 2 /\ d.stories <= 2) => c.units_per_acre = d.units_per_acre
          /\ (c.stories > 20 /\ d.stories > 20) => c.units_per_acre = d.units_per_acre
          /\ (c.stories = d.stories /\ c.land_area_acres = d.land_area_acres)
                => c.units = d.units
          /\ off <= 50 /\ 0 - off <= 50

\* C14 witness: two calls on the same 3.05 acres, one for 2 stories (91.5,
\* rounded to 92 units) and one for 8 stories (488 units).
C14_Witness ==
    /\ Len(calc) = 2
    /\ calc[1].stories = 8 /\ calc[2].stories = 2
    /\ calc[1].land_area_acres = 305 /\ calc[2].land_area_acres = 305
    /\ calc[1].units = 488 /\ calc[2].units = 92

Shown(text) == IF text = Dashes THEN 0 ELSE text[1]

Qualifies(config, p, label) ==
    \E class \in FeatureClasses :
       /\ ClassLabel(class) = label
       /\ Satisfied(ClassRings(config, class), ParcelDistance[p][class]) # {}

FirstQualifying(config, p) ==
    IF Qualifies(config, p, "TOD") THEN "TOD"
    ELSE IF Qualifies(config, p, "POD") THEN "POD"
    ELSE "BOD"

RingLists(policy) ==
    CASE policy = "tod" -> {"rings"}
      [] policy = "pod" -> {"regional_parks", "community_parks"}
      [] OTHER -> {"brt_rings", "bus_rings"}

ConfigFollowsToggles(p, config) ==
    /\ {"exclude_unlikely", "tod", "pod", "bod"} \subseteq DOMAIN config
    /\ config.exclude_unlikely = p.excludeUnlikely
    /\ \A policy \in Policies :
          /\ "enabled" \in DOMAIN config[policy]
          /\ config[policy].enabled = p.policyToggles[policy]
          /\ IF p.policyToggles[policy]
             THEN RingLists(policy) \subseteq DOMAIN config[policy]
             ELSE RingLists(policy) \cap DOMAIN config[policy] = {}
    /\ p.policyToggles["tod"] => config.tod.rings # << >>
    /\ p.policyToggles["pod"] =>
          config.pod.regional_parks # << >> /\ config.pod.community_parks # << >>
    /\ p.policyToggles["bod"] =>
          /\ {"brt_enabled", "bus_enabled"} \subseteq DOMAIN config.bod
          /\ config.bod.brt_rings # << >> => config.bod.brt_enabled
          /\ config.bod.bus_rings # << >> => config.bod.bus_enabled
          /\ config.bod.brt_enabled = p.bodToggles["brt"]
          /\ config.bod.bus_enabled = p.bodToggles["bus"]

\* C17: for every combination of the policy and sub-policy checkboxes,
\* getConfig() (of either panel) returns exclude_unlikely and a tod, a pod and
\* a bod entry whose enabled flag is the checkbox; the ring lists are there
\* for enabled policies only, brt_rings is non-empty only if brt_enabled and
\* bus_rings only if bus_enabled.
C17_GetConfigFollowsToggles ==
    /\ ConfigFollowsToggles(Panel, getConfig(Panel))
    /\ ConfigFollowsToggles(Panel, Multi_getConfig(Panel))

\* C18: the two BOD sub-policies are independently toggleable at all times:
\* in every panel state each sub-policy checkbox is operable (not disabled),
\* so one switched off can be switched on again, and toggling one changes
\* neither the other's checkbox nor the other's controls.
C18_SubPoliciesAlwaysToggleable ==
    /\ [](\A s \in SubPolicies : ~controlsDisabled[s])
    /\ [][\A s \in SubPolicies :
             ToggleSubPolicy(s) =>
                \A o \in SubPolicies \ {s} :
                   /\ bodToggles'[o] = bodToggles[o]
                   /\ controlsDisabled'[o] = controlsDisabled[o]]_vars

\* C19: every API-client call (healthCheck, evaluateTOD, getStations,
\* getRailLines) whose server was unreachable or answered with a non-success
\* status has ended in a rejected promise, never a resolved one, and its
\* failure was reported to the user.
C19_FailuresRejectedAndReported ==
    \A m \in ApiMethods :
       (api[m].state \in {"resolved", "rejected"} /\ api[m].answer # "ok")
          => (api[m].state = "rejected" /\ m \in notices)

BuffersOnMap(map, kind) == {l \in map : l.kind = kind}

\* C20: a failure while one buffer overlay is computed or drawn is caught
\* inside its renderer: afterwards that renderer has no overlay registered
\* with the map, and the failure does not reach the caller, so an apply()
\* whose renderer calls all exist still sends its request.
C20_BufferFailureContained ==
    /\ [](drawing = "throws" =>
             /\ \A d \in BufferDistances :
                   /\ BuffersOnMap(Transit_updateBufferRings(
                                       [r |-> transitRenderer, map |-> mapLayers], d).map,
                                   "todBuffer") = {}
                   /\ BuffersOnMap(Park_updateBuffers(
                                       [r |-> parkRenderer, map |-> mapLayers], d, d).map,
                                   "podBuffer") = {}
                   /\ BuffersOnMap(Bus_updateBufferRings(
                                       [r |-> busRenderer, map |-> mapLayers], d).map,
                                   "bodBuffer") = {})
    /\ [][(drawing = "throws" /\ \E n \in FeatureCounts : StationsLoaded(n))
             => BuffersOnMap(mapLayers', "todBuffer") = {}]_vars
    /\ [][(drawing = "throws" /\ \E n \in FeatureCounts : StopsLoaded(n))
             => BuffersOnMap(mapLayers', "bodBuffer") = {}]_vars
    /\ [][(drawing = "throws" /\ ClickApply /\ "park" \notin installed)
             => Len(pending') = Len(pending) + 1]_vars

\* C21: a failure in one policy's processing during apply() holds back
\* neither the other policies nor the evaluation: every apply() still brings
\* the TOD and BOD layers and overlays in line with their toggles and sends
\* its evaluation request, also when the POD block fails.
C21_PolicyFailureIsolated ==
    [][ClickApply =>
          /\ Len(pending') = Len(pending) + 1
          /\ VisibilityFollowsToggle("tod")'
          /\ VisibilityFollowsToggle("bod")']_vars

BusStopsState(b, map) ==
    <<b.stops, b.stopsLayer, b.bufferCanvasLayer, b.stopsLayer \in map,
      b.bufferCanvasLayer \in map>>

\* C22: missing BRT line data is not an error.  loadBRTLines returns 0 when
\* the file is absent or fails to load, and touches nothing; neither loader
\* ever returns anything but a count, so loadAll never rejects; and whatever
\* the BRT outcome, and whichever file is answered first, the bus stops that
\* arrive are stored, shown and given their buffer overlay.
C22_BRTAbsenceTolerated ==
    /\ [](\A k \in {"linesCount", "stopsCount"} :
             /\ loadAllResult[k] = Unsettled \/ \E n \in FeatureCounts \cup {0} :
                                                   loadAllResult[k] = <<n>>
             /\ (fetches \cap {"brtLines", "stops"} = {}) => loadAllResult[k] # Unsettled)
    /\ [][FetchFailed("brtLines") =>
             /\ loadAllResult'.linesCount = <<0>>
             /\ busRenderer' = busRenderer /\ mapLayers' = mapLayers]_vars
    /\ [][(FetchFailed("brtLines") \/ \E n \in FeatureCounts : BRTLinesLoaded(n)) =>
             /\ BusStopsState(busRenderer', mapLayers') = BusStopsState(busRenderer, mapLayers)
             /\ loadAllResult'.stopsCount = loadAllResult.stopsCount]_vars
    /\ [][\A n \in FeatureCounts :
             StopsLoaded(n) =>
                /\ busRenderer'.stops = n
                /\ busRenderer'.stopsLayer \in mapLayers'
                /\ busRenderer'.stopsLayer.features = n
                /\ busRenderer'.bufferCanvasLayer \in mapLayers'
                /\ busRenderer'.bufferCanvasLayer.features = n
                /\ loadAllResult'.stopsCount = <<n>>
                /\ loadAllResult'.linesCount = loadAllResult.linesCount]_vars

\* C22 witness: loadAll has resolved with no BRT lines and the stops loaded;
\* the stops and their buffer are on the map with no BRT layer beside them.
C22_Witness ==
    /\ loadAllResult.linesCount = <<0>>
    /\ loadAllResult.stopsCount # Unsettled /\ loadAllResult.stopsCount # <<0>>
    /\ busRenderer.brtLinesLayer = NoLayer
    /\ busRenderer.stopsLayer \in mapLayers
    /\ busRenderer.bufferCanvasLayer \in mapLayers

\* C23: an empty feature set is no error and draws nothing.  While a
\* renderer holds no features, updating its buffer overlay at any distance
\* throws nothing and leaves no overlay with a shape on the map (the bus and
\* park renderers register none at all, the transit renderer at most a layer
\* without geometry), whether drawing works or not; the loaders answered
\* with an empty file do the same, and an apply() over empty feature sets
\* sends its request.
C23_EmptyFeatureSetDrawsNothing ==
    /\ [](\A d \in BufferDistances :
             /\ transitRenderer.stations = 0 =>
                   /\ Transit_updateBufferRings(
                          [r |-> transitRenderer, map |-> mapLayers], d).map = mapLayers
                   /\ \A l \in BuffersOnMap(
                                   Transit_loadBufferRings(
                                       [r |-> transitRenderer, map |-> mapLayers], 0, d).map,
                                   "todBuffer") : l.features = 0
                   /\ \A l \in BuffersOnMap(mapLayers, "todBuffer") : l.features = 0
             /\ busRenderer.stops = 0 =>
                   /\ ~Bus_updateBufferRingsThrows([r |-> busRenderer, map |-> mapLayers])
                   /\ ~Bus_applyThrows([r |-> busRenderer, map |-> mapLayers], Panel)
                   /\ BuffersOnMap(Bus_updateBufferRings(
                                       [r |-> busRenderer, map |-> mapLayers], d).map,
                                   "bodBuffer") = {}
                   /\ BuffersOnMap(Bus_loadBufferRings(
                                       [r |-> busRenderer, map |-> mapLayers], 0, d).map,
                                   "bodBuffer") = {}
                   /\ BuffersOnMap(mapLayers, "bodBuffer") = {}
             /\ parkRenderer.parksFeatures = << >> =>
                   /\ BuffersOnMap(Park_updateBuffers(
                                       [r |-> parkRenderer, map |-> mapLayers], d, d).map,
                                   "podBuffer") = {}
                   /\ BuffersOnMap(mapLayers, "podBuffer") = {})
    /\ [][StationsLoaded(0) =>
             \A l \in BuffersOnMap(mapLayers', "todBuffer") : l.features = 0]_vars
    /\ [][StopsLoaded(0) =>
             /\ BuffersOnMap(mapLayers', "bodBuffer") = {}
             /\ loadAllResult'.stopsCount = <<0>>]_vars
    /\ [][(ClickApply /\ "park" \notin installed
              /\ transitRenderer.stations = 0 /\ busRenderer.stops = 0)
             => /\ Len(pending') = Len(pending) + 1
                /\ \A l \in BuffersOnMap(mapLayers', "todBuffer")
                               \cup BuffersOnMap(mapLayers', "bodBuffer") :
                      l.features = 0]_vars

\* C23 witness: the station and the stop file were both answered empty,
\* drawing fails, and TOD and BOD are applied with their requests sent.
C23_Witness ==
    /\ {"transit", "bus"} \subseteq installed
    /\ fetches \cap {"stations", "stops"} = {}
    /\ transitRenderer.stations = 0 /\ busRenderer.stops = 0
    /\ drawing = "throws"
    /\ policyToggles["tod"] /\ policyToggles["bod"]
    /\ togglesApplied /\ pending # << >>

\* C24: every failure put before the user is a time-limited notification
\* that holds nothing up: whenever a failed call is reported, it is reported
\* as an error box with its removal timer running, never as a dialog that
\* waits for the user, and while a report is shown the Apply button still
\* takes a click as soon as no evaluation is loading.
C24_FailureNoticesTimeLimited ==
    /\ [][notices' # notices => (errorBoxes' = errorBoxes + 1 /\ ~alertOpen')]_vars
    /\ [](~alertOpen)
    /\ []((errorBoxes > 0 /\ ~loading /\ api["healthCheck"].state # "idle")
             => ENABLED Single_apply)

\* C25: while a canvas buffer layer is registered with the map, a moveend,
\* zoomend or resize redraws it exactly once; a layer taken off the map
\* leaves no _redraw bound, so a map event redraws nothing then and puts
\* nothing back, whatever loadBufferRings, updateBufferRings and
\* clearBuffers calls came before.
C25_RedrawBoundWhileRegistered ==
    /\ [](busRenderer.redrawHandlers =
             IF busRenderer.bufferCanvasLayer \in mapLayers
             THEN <<busRenderer.bufferCanvasLayer.id>> ELSE << >>)
    /\ [](BuffersOnMap(mapLayers, "bodBuffer") \subseteq {busRenderer.bufferCanvasLayer})
    /\ [][\A e \in {"moveend", "zoomend", "resize"} :
             MapEvent(e) =>
                /\ redrawn'.event = e
                /\ redrawn'.layers =
                      IF BuffersOnMap(mapLayers, "bodBuffer") # {}
                      THEN <<busRenderer.bufferCanvasLayer.id>> ELSE << >>
                /\ mapLayers' = mapLayers /\ busRenderer' = busRenderer]_vars

\* C25 witness: the stops were loaded and their canvas drawn, an apply()
\* with BOD off cleared it, and a map event after that redrew nothing.
C25_Witness ==
    /\ busRenderer.stops > 0
    /\ busRenderer.bufferCanvasLayer = NoLayer
    /\ ~policyToggles["bod"] /\ togglesApplied
    /\ redrawn # << >> /\ redrawn.layers = << >>

\* The pixels of the viewport [0, size.x] x [0, size.y].
ViewportPixels(size) == (0..size.x) \X (0..size.y)

\* C26: in a canvas redraw a stop is skipped exactly when the bounding box of
\* its circle (centre +/- pixel radius on both axes) has no point in the
\* viewport [0, width] x [0, height]; so every stop whose circle has a point
\* in the viewport is drawn.
C26_SkippedIffBoxOutsideViewport ==
    clip # << >> =>
       LET c == clip.centerPx
           r == clip.radiusPx
           box == ((c.x - r)..(c.x + r)) \X ((c.y - r)..(c.y + r))
           circleTouches == \E p \in ViewportPixels(clip.size) :
                               (p[1] - c.x) * (p[1] - c.x) + (p[2] - c.y) * (p[2] - c.y)
                                  <= r * r
       IN /\ ~clip.drawn <=> (box \cap ViewportPixels(clip.size) = {})
          /\ circleTouches => clip.drawn

\* C26 witness: a stop whose centre is outside the viewport, off a side
\* of it, and whose circle reaches into it was drawn.
C26_Witness ==
    /\ clip # << >>
    /\ clip.centerPx.x < 0
    /\ clip.centerPx.y \in 0..clip.size.y
    /\ clip.centerPx.x + clip.radiusPx >= 0
    /\ clip.radiusPx > 0
    /\ clip.drawn

\* C27: whenever an evaluation request is in flight the loading state is
\* shown: with overlapping apply() calls, the response to one of them does
\* not clear it while another evaluation is still unresolved.  (That it is
\* hidden whenever none is in flight is the statement of C4.)
C27_LoadingWhileInFlight == pending # << >> => loading

\* C28: once the stops have loaded, the buffer overlay of an enabled policy
\* is drawn at the distance most recently requested: when BOD is on and
\* applied, so that updateBufferRings has left the requested distance in
\* _currentBufferFeet, a stop load that completes afterwards draws the
\* overlay at that distance and not at the built-in default.
C28_LateLoadKeepsRequestedDistance ==
    [][(togglesApplied /\ policyToggles["bod"] /\ \E n \in FeatureCounts : StopsLoaded(n))
          => /\ busRenderer'.bufferCanvasLayer \in mapLayers'
             /\ busRenderer'.bufferCanvasLayer.feet = busRenderer.currentBufferFeet]_vars

\* C29: in the TODController, getResults() is the evaluation result of the
\* configuration getConfig() returns: whenever the controller holds results
\* and no evaluate() is under way, they are the answer to its config, also
\* after an evaluate() that failed.
C29_ResultsAreOfConfig ==
    (todController.currentResults # << >>
        /\ api["evaluateTOD"].state # "calling" /\ ~alertOpen)
       => todController.currentResults = evaluateTOD(todController.config)

\* What a pair of per-policy counters may show for the parcels on the map:
\* the number and the units of the parcels attributed to the policy, or
\* '--' twice when none is.
CountersShow(parcels, units, features, label) ==
    LET fs == {f \in features : f.policy_source = label}
    IN \/ parcels = formatNumber(Cardinality(fs)) /\ units = formatNumber(SumUnits(fs))
       \/ parcels = Dashes /\ units = Dashes /\ fs = {}

C31_OverlayCoversAllRings ==
    [][Single_apply =>
          \A l \in BuffersOnMap(mapLayers', "todBuffer") :
             \A k \in 1..3 : l.feet >= todController'.config.rings[k].distance]_vars

\* At most one overlay of the kind is registered, and it is the referenced one.
OneOverlay(map, kind, ref) ==
    /\ Cardinality(BuffersOnMap(map, kind)) <= 1
    /\ BuffersOnMap(map, kind) \subseteq {ref}

\* C32: for each renderer, after any sequence of load, update and clear
\* operations at most one buffer overlay of it is registered with the map,
\* and a registered one is the layer the renderer references; for the park
\* renderer, whose updateBuffers no handler of the page reaches, the same
\* after one and after two updateBuffers calls from every reachable state.
C32_OneBufferOverlayPerRenderer ==
    /\ OneOverlay(mapLayers, "todBuffer", transitRenderer.bufferRingsLayer)
    /\ OneOverlay(mapLayers, "bodBuffer", busRenderer.bufferCanvasLayer)
    /\ OneOverlay(mapLayers, "podBuffer", parkRenderer.bufferRingsLayer)
    /\ \A d1, d2 \in BufferDistances \cup {0} :
          LET k1 == Park_updateBuffers([r |-> parkRenderer, map |-> mapLayers], d1, d1)
              k2 == Park_updateBuffers(k1, d2, d2)
              t1 == Transit_updateBufferRings(
                        Transit_clearBuffers([r |-> transitRenderer, map |-> mapLayers]),
                        d1)
              b1 == Bus_updateBufferRings(
                        Bus_clearBuffers([r |-> busRenderer, map |-> mapLayers]), d1)
          IN /\ OneOverlay(k1.map, "podBuffer", k1.r.bufferRingsLayer)
             /\ OneOverlay(k2.map, "podBuffer", k2.r.bufferRingsLayer)
             /\ OneOverlay(t1.map, "todBuffer", t1.r.bufferRingsLayer)
             /\ OneOverlay(b1.map, "bodBuffer", b1.r.bufferCanvasLayer)

\* C32 witness: stations and stops are loaded, TOD and BOD applied, and each
\* of the two renderers has its one overlay on the map, the transit overlay
\* being at least the second layer object the renderer made.
C32_Witness ==
    /\ transitRenderer.stations > 0 /\ busRenderer.stops > 0
    /\ policyToggles["tod"] /\ policyToggles["bod"] /\ togglesApplied
    /\ BuffersOnMap(mapLayers, "todBuffer") = {transitRenderer.bufferRingsLayer}
    /\ BuffersOnMap(mapLayers, "bodBuffer") = {busRenderer.bufferCanvasLayer}
    /\ transitRenderer.bufferRingsLayer.id > 1
    /\ drawing = "ok"

C34_SubControlsDisabledIffUnchecked ==
    \A s \in SubPolicies : controlsDisabled[s] <=> ~bodToggles[s]

\* C35: POD buffers are drawn around regional and community parks only:
\* updateBuffers buffers a 'regional' park when the regional distance is
\* positive and a 'community' park when the community distance is positive;
\* a park of any other type, or one whose distance is 0, gets no buffer.
C35_OnlyRegionalAndCommunityBuffered ==
    \A regionalDist, communityDist \in BufferDistances \cup {0} :
       LET w == Park_updateBuffers([r |-> parkRenderer, map |-> mapLayers],
                                   regionalDist, communityDist)
           parks == parkRenderer.parksFeatures
           buffered == {i \in DOMAIN parks :
                           \/ parks[i] = "regional" /\ regionalDist > 0
                           \/ parks[i] = "community" /\ communityDist > 0}
       IN drawing = "ok" =>
             /\ buffered = {} => BuffersOnMap(w.map, "podBuffer") = {}
             /\ \A l \in BuffersOnMap(w.map, "podBuffer") :
                   l.features = Cardinality(buffered)

\* C36: the popup of a parcel has the address as its header if the address
\* is not blank, else 'Parcel <parcel_id>' if there is an id, else 'Address
\* not available'; its distance label is 'Distance to Park' for a POD
\* parcel, 'Distance to Bus' for a BOD parcel and 'Distance to Transit'
\* otherwise; and the distance row is there whenever the parcel's distance
\* is not null, a distance of 0 included.
C36_PopupContent ==
    \A i \in DOMAIN popup :
       LET parcel == popup[i].parcel
           content == popup[i].content
           policy == IF parcel.policy_source = << >> THEN << >>
                     ELSE SubSeq(parcel.policy_source[1], 1, 3)
           firstNonNull(a, b) == IF a # << >> THEN a ELSE b
           distance ==
               IF policy = <<"P", "O", "D">>
               THEN firstNonNull(parcel.distance,
                                 firstNonNull(parcel.distance_to_regional_park,
                                              parcel.distance_to_community_park))
               ELSE IF policy = <<"B", "O", "D">> THEN parcel.distance
               ELSE parcel.distance_to_light_rail
       IN /\ content.headerText =
                IF parcel.address # << >>
                   /\ \E c \in DOMAIN parcel.address[1] : parcel.address[1][c] # " "
                THEN parcel.address[1]
                ELSE IF parcel.parcel_id # << >>
                     THEN <<"Parcel ">> \o parcel.parcel_id[1]
                     ELSE <<"Address not available">>
          /\ content.distanceLabel =
                IF policy = <<"P", "O", "D">> THEN "Distance to Park:"
                ELSE IF policy = <<"B", "O", "D">> THEN "Distance to Bus:"
                ELSE "Distance to Transit:"
          /\ content.distanceRow # << >> <=> distance # << >>

\* C37: every band of the units-per-acre lookup of calculate_potential_units
\* is reachable: each of the densities 30, 35, 60, 100, 160, 220, 280, 350
\* and 450 is the rate of some story count the INTEGER parameter accepts, and
\* a call with the stories of a 2.5-story zone of zoning_lookup rates it 35.
C37_EveryBandReachable ==
    /\ \A i \in DOMAIN calc :
          calc[i].stories = zoning_lookup["G-MU-2.5"] => calc[i].units_per_acre = 35
    /\ \A density \in {30, 35, 60, 100, 160, 220, 280, 350, 450} :
          \E stories \in StoryInputs : units_per_acre(stories) = density

====
